---- MODULE Spec2Model ----
(***************************************************************************)
(* Model of the question-paper generation pipeline of                      *)
(* src/ktu_question_generator/__init__.py: the text extractor, the         *)
(* past-question harvester, the request's extraction loop, the prompt      *)
(* composition and generation call (generate_questions), the storing of    *)
(* the result and the output parser (_format_response), and of the web     *)
(* layer around it: the steps of index(), save_uploaded_files, edit_paper. *)
(*                                                                         *)
(* A Python str is a sequence of one-character strings, so that every      *)
(* regular expression and string method of the source is computed on the   *)
(* characters, the way the source computes it.  Indices are 1-based.       *)
(***************************************************************************)
EXTENDS Integers, Sequences, FiniteSets, TLC

VARIABLES
    \* _format_response
    text,               \* the raw response handed to the parser
    template,           \* the Template handed to the parser
    lines,              \* text.split('\n')
    idx,                \* position of the for loop in lines
    sections,           \* dict: section name -> list of questions
    current_section,    \* None or the name of the open section
    current_questions,  \* the accumulator of the open section
    raised,             \* TRUE once an exception has left _format_response
    ppc,                \* position in _format_response
    \* index(), step 'generate': extraction and harvesting
    study_materials,    \* the saved study documents
    past_papers,        \* the saved past-paper documents, <<>> for None
    sm_i,               \* position of the loop over study_materials
    doc_text,           \* the text returned by the last extract_text_from_pdf
    combined_text,      \* list of the non-empty texts extracted so far
    past_questions,     \* None or the harvested list
    fpc,                \* position in index()
    \* generate_questions and the storing of its result
    difficulty_distribution,    \* the percentages of the request
    system_prompt,      \* the system instruction composed by the call
    user_prompt,        \* the user instruction composed by the call
    sent,               \* the message lists handed to ollama.chat, in order
    result,             \* what generate_questions returned
    stored,             \* the contents inserted into generated_question_papers
    composed,           \* log of the compositions: arguments and instructions
    \* a second, concurrent call of _format_response
    other,              \* its arguments, locals and position
    \* the web layer: index(), save_uploaded_files and edit_paper
    session,            \* session['custom_template'], NoTemplate when absent
    db,                 \* the committed rows of the two tables
    request,            \* the generate request at hand: its form and transaction
    files,              \* the upload folders: path -> document
    reqs                \* the locals of the concurrent requests

pvars == <<text, template, lines, idx, sections, current_section,
           current_questions, raised, ppc>>
fvars == <<study_materials, past_papers, sm_i, doc_text, combined_text,
           past_questions, fpc>>
gvars == <<difficulty_distribution, system_prompt, user_prompt, sent, result,
           stored, composed>>
ovars == <<other>>
wvars == <<session, db, request, files, reqs>>
vars == <<pvars, fvars, gvars, ovars, wvars>>

(***************************************************************************)
(* Bounds of the model.                                                    *)
(***************************************************************************)
MaxLines == 3       \* lines of a response text
MaxOptions == 4     \* lettered options of a multiple-choice item line
MaxPages == 3       \* pages of a document
MaxDocs == 3        \* study documents of a request
MaxPieces == 4      \* fragments a past-paper text is assembled from
TruncLen == 6       \* stands for the 500 of question[:500], scaled to the
                    \* lengths of the model's strings
TextBudget == 4     \* stands for the 4000 of combined_text[:4000], scaled
MaxSample == 2      \* stands for the 15 of past_questions[:15], scaled
MaxRequests == 2    \* generate requests of one session
MaxEdits == 3       \* edit_paper requests on one paper

(***************************************************************************)
(* Python values that are not strings.                                     *)
(***************************************************************************)
None == <<"<None>">>        \* no str of the model: its element is no character
NoMarks == -1               \* marks = None (a parsed marks value is >= 0)
NoDifficulty == "None"      \* difficulty = None
NoneList == <<None>>        \* a list variable holding None: no list of strs

(***************************************************************************)
(* Characters: str.isspace / \s, str.isdigit / \d, [a-z], IGNORECASE.      *)
(***************************************************************************)
DigitChars == <<"0", "1", "2", "3", "4", "5", "6", "7", "8", "9">>
LowerChars == <<"a", "b", "c", "d", "e", "f", "g", "h", "i", "j", "k", "l", "m",
                "n", "o", "p", "q", "r", "s", "t", "u", "v", "w", "x", "y", "z">>
UpperChars == <<"A", "B", "C", "D", "E", "F", "G", "H", "I", "J", "K", "L", "M",
                "N", "O", "P", "Q", "R", "S", "T", "U", "V", "W", "X", "Y", "Z">>

Range(f) == {f[i] : i \in DOMAIN f}

IsSpace(c) == c \in {" ", "\n", "\t"}
IsDigit(c) == c \in Range(DigitChars)
IsLower(c) == c \in Range(LowerChars)
IsUpper(c) == c \in Range(UpperChars)
IsLetter(c) == IsLower(c) \/ IsUpper(c)

\* the character folded to lower case (re.IGNORECASE compares folded characters)
Fold(c) == IF IsUpper(c)
           THEN LowerChars[CHOOSE i \in DOMAIN UpperChars : UpperChars[i] = c]
           ELSE c

DigitVal(c) == (CHOOSE i \in DOMAIN DigitChars : DigitChars[i] = c) - 1

\* int(s) for s matched by \d+
RECURSIVE ParseInt(_)
ParseInt(s) == IF s = <<>> THEN 0
               ELSE ParseInt(SubSeq(s, 1, Len(s) - 1)) * 10 + DigitVal(s[Len(s)])

Min(S) == CHOOSE x \in S : \A y \in S : x <= y

(***************************************************************************)
(* str methods.                                                            *)
(***************************************************************************)
\* s[i:] with a 1-based i
From(s, i) == SubSeq(s, i, Len(s))

\* the number of whitespace characters of s from position i on (\s* at i)
RECURSIVE SpaceRun(_, _)
SpaceRun(s, i) == IF i <= Len(s) /\ IsSpace(s[i]) THEN 1 + SpaceRun(s, i + 1) ELSE 0

\* the number of digits of s from position i on (\d* at i)
RECURSIVE DigitRun(_, _)
DigitRun(s, i) == IF i <= Len(s) /\ IsDigit(s[i]) THEN 1 + DigitRun(s, i + 1) ELSE 0

RECURSIVE RStrip(_)
RStrip(s) == IF s # <<>> /\ IsSpace(s[Len(s)]) THEN RStrip(SubSeq(s, 1, Len(s) - 1)) ELSE s

LStrip(s) == From(s, 1 + SpaceRun(s, 1))

\* s.strip()
Strip(s) == RStrip(LStrip(s))

\* p occurs in s at position i
MatchAt(s, p, i) == /\ i >= 1
                    /\ i + Len(p) - 1 <= Len(s)
                    /\ SubSeq(s, i, i + Len(p) - 1) = p

\* p occurs in s at position i, compared under re.IGNORECASE
MatchAtIC(s, p, i) == /\ i >= 1
                      /\ i + Len(p) - 1 <= Len(s)
                      /\ \A k \in 1..Len(p) : Fold(s[i + k - 1]) = Fold(p[k])

\* the first position >= i at which p occurs in s, 0 when there is none
RECURSIVE Find(_, _, _)
Find(s, p, i) == IF i > Len(s) - Len(p) + 1 THEN 0
                 ELSE IF MatchAt(s, p, i) THEN i
                 ELSE Find(s, p, i + 1)

\* p in s
Contains(s, p) == Find(s, p, 1) # 0

\* s.startswith(p)
StartsWith(s, p) == MatchAt(s, p, 1)

\* s.replace(p, '')
RECURSIVE Remove(_, _)
Remove(s, p) == LET j == Find(s, p, 1)
                IN IF j = 0 THEN s
                   ELSE SubSeq(s, 1, j - 1) \o Remove(From(s, j + Len(p)), p)

\* s.replace(a, b) for characters a, b
ReplaceChar(s, a, b) == [i \in 1..Len(s) |-> IF s[i] = a THEN b ELSE s[i]]

\* s.split('\n')
RECURSIVE SplitLines(_)
SplitLines(s) == LET j == Find(s, <<"\n">>, 1)
                 IN IF j = 0 THEN <<s>>
                    ELSE <<SubSeq(s, 1, j - 1)>> \o SplitLines(From(s, j + 1))

\* sep.join(parts)
RECURSIVE Join(_, _)
Join(parts, sep) == IF parts = <<>> THEN <<>>
                    ELSE IF Len(parts) = 1 THEN parts[1]
                    ELSE parts[1] \o sep \o Join(Tail(parts), sep)

\* re.sub(r'\s+', ' ', s)
RECURSIVE CollapseSpace(_)
CollapseSpace(s) == IF s = <<>> THEN <<>>
                    ELSE IF IsSpace(s[1])
                         THEN <<" ">> \o CollapseSpace(From(s, 1 + SpaceRun(s, 1)))
                         ELSE <<s[1]>> \o CollapseSpace(Tail(s))

(***************************************************************************)
(* _format_response: the regular expressions and tests of one line.        *)
(***************************************************************************)
Stars == <<"*", "*">>
TagEasy == <<"[", "E", "a", "s", "y", "]">>
TagMedium == <<"[", "M", "e", "d", "i", "u", "m", "]">>
TagHard == <<"[", "H", "a", "r", "d", "]">>
MarksClose == <<"M", "a", "r", "k", "s", "]">>
Bullet == <<"-", " ">>
MarkerA == <<"a", ")">>
MarkerB == <<"b", ")">>

\* a Python value tested as a condition: None and '' (and []) are false
Truthy(v) == v # None /\ v # <<>>

\* re.match(r'\*\*(.*?)\*\*', line): group(1), or None when there is no match.
\* The lazy group ends at the first ** after the opening one; '.' matches no
\* newline.
SectionMatch(line) ==
    IF ~StartsWith(line, Stars) THEN None
    ELSE LET j == Find(line, Stars, 3)
         IN IF j = 0 \/ Contains(SubSeq(line, 3, j - 1), <<"\n">>) THEN None
            ELSE SubSeq(line, 3, j - 1)

\* `if line and current_section`
LineGuard_NoLineTest(line, cs) == Truthy(cs)
LineGuard(line, cs) == Truthy(line) /\ Truthy(cs)

\* line.startswith('- ') or line.startswith('a)') or line.startswith('b)')
\* or line[0].isdigit(); line[0] raises IndexError on an empty line
ItemStartRaises(line) == /\ ~StartsWith(line, Bullet)
                         /\ ~StartsWith(line, MarkerA)
                         /\ ~StartsWith(line, MarkerB)
                         /\ line = <<>>
IsItemStart(line) == \/ StartsWith(line, Bullet)
                     \/ StartsWith(line, MarkerA)
                     \/ StartsWith(line, MarkerB)
                     \/ (line # <<>> /\ IsDigit(line[1]))

\* the if / elif chain on '[Easy]', '[Medium]', '[Hard]'
ExtractDifficulty(line) ==
    IF Contains(line, TagEasy)
    THEN [difficulty |-> "easy", line |-> Strip(Remove(line, TagEasy))]
    ELSE IF Contains(line, TagMedium)
    THEN [difficulty |-> "medium", line |-> Strip(Remove(line, TagMedium))]
    ELSE IF Contains(line, TagHard)
    THEN [difficulty |-> "hard", line |-> Strip(Remove(line, TagHard))]
    ELSE [difficulty |-> NoDifficulty, line |-> line]

\* a match of \[(\d+)\s*Marks\] at position i: the position after it, 0 when
\* there is none (no backtracking helps: a digit is neither \s nor 'M')
MarksEnd(s, i) ==
    IF i <= Len(s) /\ s[i] = "[" /\ DigitRun(s, i + 1) > 0
    THEN LET w == i + 1 + DigitRun(s, i + 1)
             m == w + SpaceRun(s, w)
         IN IF MatchAt(s, MarksClose, m) THEN m + Len(MarksClose) ELSE 0
    ELSE 0

\* re.search(r'\[(\d+)\s*Marks\]', line): the position of the match, 0 if none
RECURSIVE MarksSearchFrom(_, _)
MarksSearchFrom(s, i) == IF i > Len(s) THEN 0
                         ELSE IF MarksEnd(s, i) # 0 THEN i
                         ELSE MarksSearchFrom(s, i + 1)

MarksSearch(s) == MarksSearchFrom(s, 1)

\* re.sub(r'\[\d+\s*Marks\]', '', line)
RECURSIVE RemoveMarks(_)
RemoveMarks(s) == LET j == MarksSearch(s)
                  IN IF j = 0 THEN s
                     ELSE SubSeq(s, 1, j - 1) \o RemoveMarks(From(s, MarksEnd(s, j)))

\* marks = int(group(1)) and the tag removed; int() of \d+ does not raise
ExtractMarks(line) ==
    LET j == MarksSearch(line)
    IN IF j = 0 THEN [marks |-> NoMarks, line |-> line]
       ELSE [marks |-> ParseInt(SubSeq(line, j + 1, j + DigitRun(line, j + 1))),
             line |-> Strip(RemoveMarks(line))]

\* section == current_section for an element of template['sections'] (a dict)
\* and current_section (a str): a dict never equals a str
DictEqualsStr(section, name) == FALSE

\* current_section in template['sections']
InSections(name, tpl) == \E i \in DOMAIN tpl.sections : DictEqualsStr(tpl.sections[i], name)

\* `if marks is None and current_section in template['sections']`: the marks
\* of the first section of that name; marks stays as it is otherwise
MarksFallback(marks, cs, tpl) ==
    IF marks = NoMarks /\ InSections(cs, tpl)
    THEN LET is == {i \in DOMAIN tpl.sections : tpl.sections[i].name = cs}
         IN IF is = {} THEN marks ELSE tpl.sections[Min(is)].marks_per_question
    ELSE marks

\* section.get('type', '')
SectionType(section) == IF "type" \in DOMAIN section THEN section.type ELSE ""

\* section_types.get(current_section, ''): the dict comprehension keeps the last
\* section of a name
QType_FirstSection(cs, tpl) == SectionType(tpl.sections[1])
QType(cs, tpl) ==
    LET is == {i \in DOMAIN tpl.sections : tpl.sections[i].name = cs}
    IN IF is = {} THEN "" ELSE SectionType(tpl.sections[CHOOSE i \in is : \A k \in is : k <= i])

\* re.sub(r'^\d+\.\s*', '', line)
StripNumber(line) ==
    LET d == DigitRun(line, 1)
    IN IF d > 0 /\ d + 1 <= Len(line) /\ line[d + 1] = "."
       THEN From(line, d + 2 + SpaceRun(line, d + 2))
       ELSE line

\* re.sub(r'^\[.*?\]\s*', '', clean_line)
StripLeadTag(line) ==
    IF line # <<>> /\ line[1] = "["
    THEN LET j == Find(line, <<"]">>, 2)
         IN IF j = 0 \/ Contains(SubSeq(line, 2, j - 1), <<"\n">>) THEN line
            ELSE From(line, j + 1 + SpaceRun(line, j + 1))
    ELSE line

CleanLine(line) == StripLeadTag(StripNumber(line))

\* main_q, *opts = re.split(r'(?=a\))', clean_line, maxsplit=1): the split is
\* at the first position followed by "a)", the start of the line included
SplitAtA(s) == LET j == Find(s, MarkerA, 1)
               IN IF j = 0 THEN [main_q |-> s, opts |-> <<>>]
                  ELSE [main_q |-> SubSeq(s, 1, j - 1), opts |-> <<From(s, j)>>]

\* lookahead (?=[a-z]\)) at position m
LetterMarkerAt(s, m) == m + 1 <= Len(s) /\ IsLower(s[m]) /\ s[m + 1] = ")"

\* $ at position k (no MULTILINE): the end, or before a final newline
AtEnd(s, k) == k = Len(s) + 1 \/ (k = Len(s) /\ s[k] = "\n")

\* the first position >= k where the lazy .*? of an option can stop: the
\* spaces before a lettered marker, or the end, follow
RECURSIVE OptionStop(_, _)
OptionStop(s, k) == IF k > Len(s) THEN Len(s) + 1
                    ELSE IF LetterMarkerAt(s, k + SpaceRun(s, k)) \/ AtEnd(s, k) THEN k
                    ELSE OptionStop(s, k + 1)

\* ([a-z]\))\s*([^a-z\)](?:.*?))(?:\s*(?=[a-z]\))|$) matched at position i, with
\* re.DOTALL: [ok, g: group 2, end: the position after the match].
\* \s* is greedy and gives one character back when what follows it is a lower
\* case letter, a ')' or the end; the lazy .*? stops at the first position
\* where the spaces before a lettered marker, or the end, follow.
OptionMatch_NoGiveBack(s, i) ==
    IF ~LetterMarkerAt(s, i) THEN [ok |-> FALSE, g |-> <<>>, end |-> i]
    ELSE LET j == i + 2 + SpaceRun(s, i + 2)
         IN IF ~(j <= Len(s) /\ ~IsLower(s[j]) /\ s[j] # ")")
            THEN [ok |-> FALSE, g |-> <<>>, end |-> i]
            ELSE LET k == OptionStop(s, j + 1)
                 IN [ok |-> TRUE,
                     g |-> SubSeq(s, j, k - 1),
                     end |-> IF LetterMarkerAt(s, k + SpaceRun(s, k))
                             THEN k + SpaceRun(s, k) ELSE k]
OptionMatch(s, i) ==
    IF ~LetterMarkerAt(s, i) THEN [ok |-> FALSE, g |-> <<>>, end |-> i]
    ELSE LET w == SpaceRun(s, i + 2)
             j0 == i + 2 + w
             j == IF j0 <= Len(s) /\ ~IsLower(s[j0]) /\ s[j0] # ")" THEN j0
                  ELSE IF w > 0 THEN j0 - 1 ELSE 0
         IN IF j = 0 THEN [ok |-> FALSE, g |-> <<>>, end |-> i]
            ELSE LET k == OptionStop(s, j + 1)
                 IN [ok |-> TRUE,
                     g |-> SubSeq(s, j, k - 1),
                     end |-> IF LetterMarkerAt(s, k + SpaceRun(s, k))
                             THEN k + SpaceRun(s, k) ELSE k]

\* the first position >= i where the option pattern matches, 0 if none
RECURSIVE OptionSearch(_, _)
OptionSearch(s, i) == IF i > Len(s) THEN 0
                      ELSE IF OptionMatch(s, i).ok THEN i
                      ELSE OptionSearch(s, i + 1)

\* re.findall of the option pattern from position pos on: the group 2 of each
\* match, the matches found left to right, each search starting where the
\* match before it ended
RECURSIVE FindOptions(_, _)
FindOptions(s, pos) ==
    LET i == OptionSearch(s, pos)
    IN IF i = 0 THEN <<>>
       ELSE LET m == OptionMatch(s, i)
            IN <<m.g>> \o FindOptions(s, m.end)

\* [o[1].strip().replace('\n', ' ') for o in option_matches if o[1].strip()]
OptionList(blob) ==
    LET found == FindOptions(blob, 1)
        kept == SelectSeq(found, LAMBDA g : Strip(g) # <<>>)
    IN [i \in 1..Len(kept) |-> ReplaceChar(Strip(kept[i]), "\n", " ")]

\* difficulty or 'medium'
DifficultyOr_NoDefault(d) == d
DifficultyOr(d) == IF d = NoDifficulty THEN "medium" ELSE d

\* marks or 0
MarksOr(m) == IF m = NoMarks THEN 0 ELSE m

\* the Question appended for an item line (lines 222-272)
ParseItem(line0, cs, tpl) ==
    LET d == ExtractDifficulty(line0)
        m == ExtractMarks(d.line)
        marks == MarksFallback(m.marks, cs, tpl)
        clean_line == CleanLine(m.line)
    IN IF QType(cs, tpl) = "multiple_choice"
       THEN LET sp == SplitAtA(clean_line)
            IN [text |-> Strip(sp.main_q),
                difficulty |-> DifficultyOr(d.difficulty),
                marks |-> MarksOr(marks),
                options |-> IF sp.opts # <<>> THEN OptionList(sp.opts[1]) ELSE <<>>]
       ELSE [text |-> Strip(clean_line),
             difficulty |-> DifficultyOr(d.difficulty),
             marks |-> MarksOr(marks)]

\* the append of a continuation line that also takes the line's difficulty tag
AppendToLast_Retag(qs, line) ==
    [qs EXCEPT ![Len(qs)] =
         [@ EXCEPT !.text = @ \o <<" ">> \o line,
                   !.difficulty = IF ExtractDifficulty(line).difficulty = NoDifficulty
                                  THEN @ ELSE ExtractDifficulty(line).difficulty]]
\* current_questions[-1]['text'] += " " + line
AppendToLast_NoSpace(qs, line) ==
    [qs EXCEPT ![Len(qs)] = [@ EXCEPT !.text = @ \o line]]
AppendToLast(qs, line) ==
    [qs EXCEPT ![Len(qs)] = [@ EXCEPT !.text = @ \o <<" ">> \o line]]

\* sections[name] = questions
DictSet(d, name, questions) ==
    [k \in DOMAIN d \cup {name} |-> IF k = name THEN questions ELSE d[k]]

EmptyDict == [k \in {} |-> <<>>]

(***************************************************************************)
(* _format_response: the loop.                                             *)
(***************************************************************************)
\* one iteration of `for line in text.split('\n')` on the raw line, from the
\* parser state st = [sections, current_section, current_questions, raised]
FormatStep(st, raw, tpl) ==
    LET line == Strip(raw)
        name == SectionMatch(line)
    IN IF name # None
       THEN [sections |-> IF Truthy(st.current_section)
                          THEN DictSet(st.sections, st.current_section, st.current_questions)
                          ELSE st.sections,
             current_section |-> name,
             current_questions |-> <<>>,
             raised |-> FALSE]
       ELSE IF ~LineGuard(line, st.current_section) THEN st
       ELSE IF ItemStartRaises(line) THEN [st EXCEPT !.raised = TRUE]
       ELSE IF IsItemStart(line)
       THEN [st EXCEPT !.current_questions =
                           Append(@, ParseItem(line, st.current_section, tpl))]
       ELSE IF st.current_questions # <<>>
       THEN [st EXCEPT !.current_questions = AppendToLast(@, line)]
       ELSE st

\* lines 205-208: the locals before the loop
FormatBegin ==
    /\ ppc = "call"
    /\ lines' = SplitLines(text)
    /\ idx' = 1
    /\ sections' = EmptyDict
    /\ current_section' = None
    /\ current_questions' = <<>>
    /\ ppc' = "loop"
    /\ UNCHANGED <<text, template, raised, fvars, gvars, ovars, wvars>>

\* lines 209-275: one iteration of the loop
FormatLine ==
    /\ ppc = "loop"
    /\ idx <= Len(lines)
    /\ LET st == FormatStep([sections |-> sections,
                             current_section |-> current_section,
                             current_questions |-> current_questions,
                             raised |-> FALSE], lines[idx], template)
       IN /\ sections' = st.sections
          /\ current_section' = st.current_section
          /\ current_questions' = st.current_questions
          /\ raised' = st.raised
          /\ ppc' = IF st.raised THEN "raised" ELSE "loop"
    /\ idx' = idx + 1
    /\ UNCHANGED <<text, template, lines, fvars, gvars, ovars, wvars>>

\* lines 276-279: the last section is committed and the document returned
FormatReturn ==
    /\ ppc = "loop"
    /\ idx > Len(lines)
    /\ sections' = IF Truthy(current_section)
                   THEN DictSet(sections, current_section, current_questions)
                   ELSE sections
    /\ ppc' = "done"
    /\ UNCHANGED <<text, template, lines, idx, current_section, current_questions,
                   raised, fvars, gvars, ovars, wvars>>

ParseNext == FormatBegin \/ FormatLine \/ FormatReturn

(***************************************************************************)
(* extract_text_from_pdf.  A document is [pages, fail_at]: the text        *)
(* page.get_text gives for each page, and where fitz raises: 0 for         *)
(* fitz.open, k for get_text on page k, more than the page count never.    *)
(***************************************************************************)
\* text = re.sub(r'\s+', ' ', text).strip()
PageText(t) == Strip(CollapseSpace(t))

\* an exception leaves extract_text_from_pdf: `except Exception` catches
\* whatever fitz raises
ExtractRaises_NoExcept(doc) == doc.fail_at <= Len(doc.pages)
ExtractRaises(doc) == FALSE

extract_text_from_pdf(doc) ==
    IF doc.fail_at <= Len(doc.pages) THEN <<>>
    ELSE Join([i \in 1..Len(doc.pages) |-> PageText(doc.pages[i])], <<" ">>)

(***************************************************************************)
(* extract_questions_from_past_papers and _clean_question.                 *)
(***************************************************************************)
WordQuestion == <<"q", "u", "e", "s", "t", "i", "o", "n">>
WordPart == <<"p", "a", "r", "t">>

\* s[i] = c, FALSE past the end
CharAt(s, i, c) == i >= 1 /\ i <= Len(s) /\ s[i] = c

\* Q\s*\d+ matched at i (IGNORECASE): the position after it, 0 if no match
QMarkEnd(s, i) ==
    IF i <= Len(s) /\ Fold(s[i]) = "q"
    THEN LET w == i + 1 + SpaceRun(s, i + 1)
         IN IF DigitRun(s, w) > 0 THEN w + DigitRun(s, w) ELSE 0
    ELSE 0

\* Part\s*[A-Z]\s*\( matched at i (IGNORECASE): the position after it, 0 if none
PartMarkEnd(s, i) ==
    IF MatchAtIC(s, WordPart, i)
    THEN LET w == i + 4 + SpaceRun(s, i + 4)
         IN IF w <= Len(s) /\ IsLetter(s[w])
            THEN LET p == w + 1 + SpaceRun(s, w + 1)
                 IN IF CharAt(s, p, "(") THEN p + 1 ELSE 0
            ELSE 0
    ELSE 0

\* the heading (?:Q\s*\d+\.?|Question\s*\d*:?|Part\s*[A-Z]\s*\(.*?\):?) matched at
\* i: the position after it, 0 if no match.  What follows the heading always
\* matches (DOTALL, and $ at the end), so the first alternative that matches,
\* taken greedily, is the heading.
HeadingEnd(s, i) ==
    IF QMarkEnd(s, i) # 0
    THEN LET e == QMarkEnd(s, i) IN IF CharAt(s, e, ".") THEN e + 1 ELSE e
    ELSE IF MatchAtIC(s, WordQuestion, i)
    THEN LET w == i + 8 + SpaceRun(s, i + 8)
             e == w + DigitRun(s, w)
         IN IF CharAt(s, e, ":") THEN e + 1 ELSE e
    ELSE IF PartMarkEnd(s, i) # 0
    THEN LET j == Find(s, <<")">>, PartMarkEnd(s, i))
         IN IF j = 0 THEN 0
            ELSE IF CharAt(s, j + 1, ":") THEN j + 2 ELSE j + 1
    ELSE 0

\* the lookahead (?=(?:Q\s*\d+|Question\s*\d+|Part\s*[A-Z]\s*\()|$) at k
BodyStop(s, k) ==
    \/ QMarkEnd(s, k) # 0
    \/ (MatchAtIC(s, WordQuestion, k) /\ DigitRun(s, k + 8 + SpaceRun(s, k + 8)) > 0)
    \/ PartMarkEnd(s, k) # 0
    \/ AtEnd(s, k)

\* the first position >= i where the heading matches, 0 if none
RECURSIVE HeadingSearch(_, _)
HeadingSearch(s, i) == IF i > Len(s) THEN 0
                       ELSE IF HeadingEnd(s, i) # 0 THEN i
                       ELSE HeadingSearch(s, i + 1)

\* the first position >= k where the lazy body can stop
RECURSIVE BodyEnd(_, _)
BodyEnd(s, k) == IF k > Len(s) THEN Len(s) + 1
                 ELSE IF BodyStop(s, k) THEN k
                 ELSE BodyEnd(s, k + 1)

\* re.findall(pattern, text, re.DOTALL | re.IGNORECASE) from position pos on:
\* group 1 (the lazy body) of each match, left to right
RECURSIVE FindQuestions(_, _)
FindQuestions(s, pos) ==
    LET i == HeadingSearch(s, pos)
    IN IF i = 0 THEN <<>>
       ELSE LET e == HeadingEnd(s, i)
                k == BodyEnd(s, e)
            IN <<SubSeq(s, e, k - 1)>> \o FindQuestions(s, k)

\* \[.*?\] matches at i: a ']' follows the '[' with no newline between
BracketAt(s, i) == /\ s[i] = "["
                   /\ LET j == Find(s, <<"]">>, i + 1)
                      IN j # 0 /\ ~Contains(SubSeq(s, i + 1, j - 1), <<"\n">>)

RECURSIVE BracketSearch(_, _)
BracketSearch(s, i) == IF i > Len(s) THEN 0
                       ELSE IF BracketAt(s, i) THEN i
                       ELSE BracketSearch(s, i + 1)

\* re.sub(r'\[.*?\]', '', question): '.' matches no newline
RECURSIVE RemoveBrackets(_)
RemoveBrackets(s) ==
    LET i == BracketSearch(s, 1)
    IN IF i = 0 THEN s
       ELSE LET j == Find(s, <<"]">>, i + 1)
            IN SubSeq(s, 1, i - 1) \o RemoveBrackets(From(s, j + 1))

\* question[:500]
Truncate_Off(s) == s
Truncate(s) == SubSeq(s, 1, IF Len(s) < TruncLen THEN Len(s) ELSE TruncLen)

_clean_question(question) == Truncate(Strip(CollapseSpace(RemoveBrackets(question))))

\* [self._clean_question(q) for q in questions if q.strip()]
CleanedQuestions(questions) ==
    LET kept == SelectSeq(questions, LAMBDA q : Strip(q) # <<>>)
    IN [i \in 1..Len(kept) |-> _clean_question(kept[i])]

\* the entries one path adds to past_questions
QuestionsOfPaper(doc) == CleanedQuestions(FindQuestions(extract_text_from_pdf(doc), 1))

RECURSIVE extract_questions_from_past_papers(_)
extract_questions_from_past_papers(pdf_paths) ==
    IF pdf_paths = <<>> THEN <<>>
    ELSE QuestionsOfPaper(pdf_paths[1]) \o extract_questions_from_past_papers(Tail(pdf_paths))

(***************************************************************************)
(* generate_questions: the literal text of its f-strings and messages.     *)
(***************************************************************************)
DifficultyHead ==
    <<"\n", "*", "*", "D", "i", "f", "f", "i", "c", "u", "l", "t", "y", " ",
      "D", "i", "s", "t", "r", "i", "b", "u", "t", "i", "o", "n", ":", "*",
      "*", "\n", "-", " ", "E", "a", "s", "y", " ", "Q", "u", "e", "s", "t",
      "i", "o", "n", "s", ":", " ">>

DifficultyMedium ==
    <<"%", "\n", "-", " ", "M", "e", "d", "i", "u", "m", " ", "Q", "u", "e",
      "s", "t", "i", "o", "n", "s", ":", " ">>

DifficultyHard ==
    <<"%", "\n", "-", " ", "H", "a", "r", "d", " ", "Q", "u", "e", "s", "t",
      "i", "o", "n", "s", ":", " ">>

DifficultyTail ==
    <<"%", "\n">>

AvoidanceHead ==
    <<"\n", "*", "*", "A", "v", "o", "i", "d", "a", "n", "c", "e", " ", "R",
      "e", "q", "u", "i", "r", "e", "m", "e", "n", "t", "s", ":", "*", "*",
      "\n", "D", "o", " ", "n", "o", "t", " ", "c", "r", "e", "a", "t", "e",
      " ", "q", "u", "e", "s", "t", "i", "o", "n", "s", " ", "s", "i", "m",
      "i", "l", "a", "r", " ", "t", "o", " ", "t", "h", "e", "s", "e", " ",
      "p", "a", "s", "t", " ", "q", "u", "e", "s", "t", "i", "o", "n", "s",
      ":", "\n">>

AvoidanceTail ==
    <<"\n", "\n", "*", "*", "A", "d", "d", "i", "t", "i", "o", "n", "a", "l",
      " ", "G", "u", "i", "d", "e", "l", "i", "n", "e", "s", ":", "*", "*",
      "\n", "1", ".", " ", "E", "n", "s", "u", "r", "e", " ", "n", "e", "w",
      " ", "q", "u", "e", "s", "t", "i", "o", "n", "s", " ", "a", "r", "e",
      " ", "d", "i", "s", "t", "i", "n", "c", "t", " ", "i", "n", " ", "b",
      "o", "t", "h", " ", "c", "o", "n", "t", "e", "n", "t", " ", "a", "n",
      "d", " ", "p", "h", "r", "a", "s", "i", "n", "g", "\n", "2", ".", " ",
      "C", "o", "v", "e", "r", " ", "s", "i", "m", "i", "l", "a", "r", " ",
      "c", "o", "n", "c", "e", "p", "t", "s", " ", "b", "u", "t", " ", "w",
      "i", "t", "h", " ", "d", "i", "f", "f", "e", "r", "e", "n", "t", " ",
      "a", "p", "p", "r", "o", "a", "c", "h", "e", "s", "\n", "3", ".", " ",
      "V", "a", "r", "y", " ", "q", "u", "e", "s", "t", "i", "o", "n", " ",
      "t", "y", "p", "e", "s", " ", "a", "n", "d", " ", "f", "o", "r", "m",
      "a", "t", "s", "\n">>

SectionQuestions ==
    <<")", ":", "*", "*", "\n", "-", " ", "N", "u", "m", "b", "e", "r", " ",
      "o", "f", " ", "q", "u", "e", "s", "t", "i", "o", "n", "s", ":", " ">>

SectionMarks ==
    <<"\n", "-", " ", "M", "a", "r", "k", "s", " ", "p", "e", "r", " ", "q",
      "u", "e", "s", "t", "i", "o", "n", ":", " ">>

SectionTotal ==
    <<"\n", "-", " ", "T", "o", "t", "a", "l", " ", "m", "a", "r", "k", "s",
      ":", " ">>

SystemHead ==
    <<"\n", "Y", "o", "u", " ", "a", "r", "e", " ", "a", "n", " ", "A", "I",
      " ", "s", "p", "e", "c", "i", "a", "l", "i", "z", "e", "d", " ", "i",
      "n", " ", "g", "e", "n", "e", "r", "a", "t", "i", "n", "g", " ", "a",
      "c", "a", "d", "e", "m", "i", "c", " ", "q", "u", "e", "s", "t", "i",
      "o", "n", " ", "p", "a", "p", "e", "r", "s", ".", "\n", "F", "o", "l",
      "l", "o", "w", " ", "t", "h", "e", "s", "e", " ", "g", "u", "i", "d",
      "e", "l", "i", "n", "e", "s", " ", "s", "t", "r", "i", "c", "t", "l",
      "y", ":", "\n", "\n", "*", "*", "P", "a", "p", "e", "r", " ", "S", "t",
      "r", "u", "c", "t", "u", "r", "e", ":", "*", "*", "\n">>

SystemRules ==
    <<"\n", "\n", "*", "*", "F", "o", "r", "m", "a", "t", "t", "i", "n", "g",
      " ", "R", "u", "l", "e", "s", ":", "*", "*", "\n", "1", ".", " ", "S",
      "t", "a", "r", "t", " ", "e", "a", "c", "h", " ", "s", "e", "c", "t",
      "i", "o", "n", " ", "w", "i", "t", "h", " ", "t", "h", "e", " ", "s",
      "e", "c", "t", "i", "o", "n", " ", "n", "a", "m", "e", "\n", "2", ".",
      " ", "L", "i", "s", "t", " ", "q", "u", "e", "s", "t", "i", "o", "n",
      "s", " ", "w", "i", "t", "h", " ", "b", "u", "l", "l", "e", "t", " ",
      "p", "o", "i", "n", "t", "s", " ", "(", "-", ")", "\n", "3", ".", " ",
      "F", "o", "r", " ", "s", "u", "b", "-", "q", "u", "e", "s", "t", "i",
      "o", "n", "s", " ", "u", "s", "e", " ", "a", ")", " ", "a", "n", "d",
      " ", "b", ")", "\n", "4", ".", " ", "E", "x", "p", "l", "i", "c", "i",
      "t", "l", "y", " ", "i", "n", "c", "l", "u", "d", "e", " ", "m", "a",
      "r", "k", "s", " ", "a", "l", "l", "o", "c", "a", "t", "i", "o", "n",
      " ", "i", "n", " ", "b", "r", "a", "c", "k", "e", "t", "s", " ", "[",
      "X", " ", "M", "a", "r", "k", "s", "]", "\n", "5", ".", " ", "K", "e",
      "e", "p", " ", "q", "u", "e", "s", "t", "i", "o", "n", "s", " ", "c",
      "o", "n", "c", "i", "s", "e", " ", "b", "u", "t", " ", "u", "n", "a",
      "m", "b", "i", "g", "u", "o", "u", "s", "\n", "6", ".", " ", "L", "a",
      "b", "e", "l", " ", "e", "a", "c", "h", " ", "q", "u", "e", "s", "t",
      "i", "o", "n", " ", "w", "i", "t", "h", " ", "i", "t", "s", " ", "d",
      "i", "f", "f", "i", "c", "u", "l", "t", "y", " ", "l", "e", "v", "e",
      "l", " ", "[", "E", "a", "s", "y", "/", "M", "e", "d", "i", "u", "m",
      "/", "H", "a", "r", "d", "]", "\n", "\n", "*", "*", "Q", "u", "a", "l",
      "i", "t", "y", " ", "R", "e", "q", "u", "i", "r", "e", "m", "e", "n",
      "t", "s", ":", "*", "*", "\n", "1", ".", " ", "Q", "u", "e", "s", "t",
      "i", "o", "n", "s", " ", "m", "u", "s", "t", " ", "b", "e", " ", "u",
      "n", "a", "m", "b", "i", "g", "u", "o", "u", "s", " ", "a", "n", "d",
      " ", "a", "c", "a", "d", "e", "m", "i", "c", "a", "l", "l", "y", " ",
      "r", "i", "g", "o", "r", "o", "u", "s", "\n", "2", ".", " ", "C", "o",
      "v", "e", "r", " ", "a", "l", "l", " ", "m", "a", "j", "o", "r", " ",
      "t", "o", "p", "i", "c", "s", " ", "f", "r", "o", "m", " ", "t", "h",
      "e", " ", "s", "o", "u", "r", "c", "e", " ", "m", "a", "t", "e", "r",
      "i", "a", "l", "\n", "3", ".", " ", "I", "n", "c", "l", "u", "d", "e",
      " ", "a", "p", "p", "r", "o", "p", "r", "i", "a", "t", "e", " ", "t",
      "e", "c", "h", "n", "i", "c", "a", "l", " ", "t", "e", "r", "m", "s",
      "\n", "4", ".", " ", "F", "o", "l", "l", "o", "w", " ", "t", "h", "e",
      " ", "s", "p", "e", "c", "i", "f", "i", "e", "d", " ", "d", "i", "f",
      "f", "i", "c", "u", "l", "t", "y", " ", "d", "i", "s", "t", "r", "i",
      "b", "u", "t", "i", "o", "n", "\n">>

UserHead ==
    <<"G", "e", "n", "e", "r", "a", "t", "e", " ", "a", " ", "c", "o", "m",
      "p", "r", "e", "h", "e", "n", "s", "i", "v", "e", " ", "q", "u", "e",
      "s", "t", "i", "o", "n", " ", "p", "a", "p", "e", "r", " ", "f", "r",
      "o", "m", ":", " ">>

NoContentMessage ==
    <<"N", "o", " ", "m", "e", "a", "n", "i", "n", "g", "f", "u", "l", " ",
      "c", "o", "n", "t", "e", "n", "t", " ", "f", "o", "u", "n", "d", " ",
      "i", "n", " ", "t", "h", "e", " ", "P", "D", "F", "s">>

GenerationErrorHead ==
    <<"E", "r", "r", "o", "r", " ", "g", "e", "n", "e", "r", "a", "t", "i",
      "n", "g", " ", "q", "u", "e", "s", "t", "i", "o", "n", "s", ":", " ">>

IndexErrorMessage ==
    <<"s", "t", "r", "i", "n", "g", " ", "i", "n", "d", "e", "x", " ", "o",
      "u", "t", " ", "o", "f", " ", "r", "a", "n", "g", "e">>

ShortAnswerChars ==
    <<"s", "h", "o", "r", "t", "_", "a", "n", "s", "w", "e", "r">>

MultipleChoiceChars ==
    <<"m", "u", "l", "t", "i", "p", "l", "e", "_", "c", "h", "o", "i", "c",
      "e">>

(***************************************************************************)
(* generate_questions: the composition of the two instructions.            *)
(***************************************************************************)
\* the character in upper case
ToUpper(c) == IF IsLower(c)
              THEN UpperChars[CHOOSE i \in DOMAIN LowerChars : LowerChars[i] = c]
              ELSE c

\* s.title(): a letter after a non-letter in upper case, the others in lower
Title(s) == [i \in 1..Len(s) |->
                IF ~IsLetter(s[i]) THEN s[i]
                ELSE IF i = 1 \/ ~IsLetter(s[i - 1]) THEN ToUpper(s[i])
                ELSE Fold(s[i])]

\* str(n) of a natural number
RECURSIVE DigitsOf(_)
DigitsOf(n) == IF n < 10 THEN <<DigitChars[n + 1]>>
               ELSE DigitsOf(n \div 10) \o <<DigitChars[(n % 10) + 1]>>

\* str(n), the way an f-string formats an int
IntToStr(n) == IF n < 0 THEN <<"-">> \o DigitsOf(0 - n) ELSE DigitsOf(n)

\* s[:n]
Prefix_Whole(s, n) == s
Prefix(s, n) == SubSeq(s, 1, IF Len(s) < n THEN Len(s) ELSE n)

\* the characters of a section type
TypeChars(type) == IF type = "multiple_choice" THEN MultipleChoiceChars
                   ELSE ShortAnswerChars

\* lines 133-138
difficulty_prompt(dd) ==
    DifficultyHead \o IntToStr(dd.easy) \o DifficultyMedium \o IntToStr(dd.medium)
        \o DifficultyHard \o IntToStr(dd.hard) \o DifficultyTail

\* line 142: '\n'.join(f'- {q}' for q in past_questions[:15])
sample_questions(pq) ==
    LET first == Prefix(pq, MaxSample)
    IN Join([i \in 1..Len(first) |-> Bullet \o first[i]], <<"\n">>)

\* lines 140-152: `if past_questions:` is false for None and for []
past_questions_section_Always(pq) ==
    AvoidanceHead \o (IF pq = NoneList THEN <<>> ELSE sample_questions(pq)) \o AvoidanceTail
past_questions_section(pq) ==
    IF pq = NoneList \/ pq = <<>> THEN <<>>
    ELSE AvoidanceHead \o sample_questions(pq) \o AvoidanceTail

\* lines 157-162
section_prompt(section) ==
    <<"\n", "*", "*">> \o section.name \o <<" ", "(">>
        \o Title(ReplaceChar(TypeChars(section.type), "_", " "))
        \o SectionQuestions \o IntToStr(section.questions)
        \o SectionMarks \o IntToStr(section.marks_per_question)
        \o SectionTotal \o IntToStr(section.questions * section.marks_per_question)
        \o <<"\n">>

\* lines 165-187
ComposeSystem(tpl, dd, pq) ==
    SystemHead
        \o Join([i \in 1..Len(tpl.sections) |-> section_prompt(tpl.sections[i])], <<"\n">>)
        \o SystemRules \o difficulty_prompt(dd) \o <<"\n">>
        \o past_questions_section(pq) \o <<"\n">>

\* line 189
ComposeUser(ct) == UserHead \o Prefix(ct, TextBudget)

(***************************************************************************)
(* index(), step 'generate', lines 402-420.                                *)
(***************************************************************************)
\* lines 404-407: one iteration of the loop over study_materials
ExtractNext ==
    /\ fpc = "extract"
    /\ sm_i <= Len(study_materials)
    /\ IF ExtractRaises(study_materials[sm_i])
       THEN /\ fpc' = "error"
            /\ UNCHANGED <<doc_text, combined_text, sm_i>>
       ELSE /\ doc_text' = extract_text_from_pdf(study_materials[sm_i])
            /\ combined_text' = IF Truthy(doc_text') THEN Append(combined_text, doc_text')
                                ELSE combined_text
            /\ sm_i' = sm_i + 1
            /\ fpc' = fpc
    /\ UNCHANGED <<study_materials, past_papers, past_questions, pvars, gvars, ovars, wvars>>

\* lines 408-410: nothing extracted, the request is turned back
CheckCombined ==
    /\ fpc = "extract"
    /\ sm_i > Len(study_materials)
    /\ fpc' = IF combined_text = <<>> THEN "rejected" ELSE "harvest"
    /\ UNCHANGED <<study_materials, past_papers, sm_i, doc_text, combined_text,
                   past_questions, pvars, gvars, ovars, wvars>>

\* lines 412-420: the past questions, when past papers were uploaded
HarvestPast ==
    /\ fpc = "harvest"
    /\ past_questions' = IF past_papers # <<>>
                         THEN extract_questions_from_past_papers(past_papers)
                         ELSE NoneList
    /\ fpc' = "generate"
    /\ UNCHANGED <<study_materials, past_papers, sm_i, doc_text, combined_text, pvars, gvars, ovars, wvars>>

FlowNext == ExtractNext \/ CheckCombined \/ HarvestPast

(***************************************************************************)
(* generate_questions (lines 128-201) as index() calls it at line 422, and *)
(* the storing of its result (lines 428-481).  A reply of the generation   *)
(* service is [raises, message, content]: ollama.chat raises an exception  *)
(* whose str is message, or returns content as response text.              *)
(***************************************************************************)
ServiceDown == <<"d", "o", "w", "n">>

Replies ==
    {[raises |-> TRUE, message |-> ServiceDown, content |-> <<>>],
     [raises |-> FALSE, message |-> <<>>, content |-> <<>>],
     [raises |-> FALSE, message |-> <<>>,
      content |-> <<"*", "*", "S", "*", "*", "\n", "-", " ", "x", " ", "y">>]}

NoResult == [none |-> TRUE]

\* the run of the composition, as the log of compositions keeps it
Composition ==
    [template |-> template, quota |-> difficulty_distribution,
     text |-> Join(combined_text, <<"\n", "\n">>), past |-> past_questions,
     system |-> system_prompt', user |-> user_prompt']

\* lines 128-189: the guard on the source text, then the two instructions
GenerateCall_Numbered ==
    /\ fpc = "generate"
    /\ LET ct == Join(combined_text, <<"\n", "\n">>)
       IN IF ~Truthy(ct)
          THEN /\ result' = [error |-> NoContentMessage]
               /\ fpc' = "result"
               /\ UNCHANGED <<system_prompt, user_prompt, composed>>
          ELSE /\ system_prompt' = ComposeSystem(template, difficulty_distribution,
                                                 past_questions)
               /\ user_prompt' = ComposeUser(ct) \o IntToStr(Len(composed))
               /\ composed' = Append(composed, Composition)
               /\ fpc' = "chat"
               /\ UNCHANGED result
    /\ UNCHANGED <<study_materials, past_papers, sm_i, doc_text, combined_text,
                   past_questions, difficulty_distribution, sent, stored, pvars, ovars, wvars>>
GenerateCall_NoGuard ==
    /\ fpc = "generate"
    /\ system_prompt' = ComposeSystem(template, difficulty_distribution, past_questions)
    /\ user_prompt' = ComposeUser(Join(combined_text, <<"\n", "\n">>))
    /\ composed' = Append(composed, Composition)
    /\ fpc' = "chat"
    /\ UNCHANGED <<study_materials, past_papers, sm_i, doc_text, combined_text,
                   past_questions, difficulty_distribution, sent, result, stored,
                   pvars, ovars, wvars>>
GenerateCall ==
    /\ fpc = "generate"
    /\ LET ct == Join(combined_text, <<"\n", "\n">>)
       IN IF ~Truthy(ct)
          THEN /\ result' = [error |-> NoContentMessage]
               /\ fpc' = "result"
               /\ UNCHANGED <<system_prompt, user_prompt, composed>>
          ELSE /\ system_prompt' = ComposeSystem(template, difficulty_distribution,
                                                 past_questions)
               /\ user_prompt' = ComposeUser(ct)
               /\ composed' = Append(composed, Composition)
               /\ fpc' = "chat"
               /\ UNCHANGED result
    /\ UNCHANGED <<study_materials, past_papers, sm_i, doc_text, combined_text,
                   past_questions, difficulty_distribution, sent, stored, pvars, ovars, wvars>>

\* the call of the service, made again after a first exception
ChatReply_Retry ==
    /\ fpc = "chat"
    /\ sent' = Append(sent, <<[role |-> "system", content |-> system_prompt],
                              [role |-> "user", content |-> user_prompt]>>)
    /\ \E r \in Replies :
           IF r.raises
           THEN IF sent = <<>>
                THEN /\ fpc' = "chat"
                     /\ UNCHANGED <<result, pvars>>
                ELSE /\ result' = [error |-> GenerationErrorHead \o r.message]
                     /\ fpc' = "result"
                     /\ UNCHANGED pvars
           ELSE /\ text' = r.content
                /\ ppc' = "call"
                /\ fpc' = "parse"
                /\ UNCHANGED <<template, lines, idx, sections, current_section,
                               current_questions, raised, result>>
    /\ UNCHANGED <<study_materials, past_papers, sm_i, doc_text, combined_text,
                   past_questions, difficulty_distribution, system_prompt,
                   user_prompt, stored, composed, ovars, wvars>>

\* lines 191-199: the call of the service; an exception is caught at line 200,
\* a response text goes to _format_response
ChatReply ==
    /\ fpc = "chat"
    /\ sent' = Append(sent, <<[role |-> "system", content |-> system_prompt],
                              [role |-> "user", content |-> user_prompt]>>)
    /\ \E r \in Replies :
           IF r.raises
           THEN /\ result' = [error |-> GenerationErrorHead \o r.message]
                /\ fpc' = "result"
                /\ UNCHANGED pvars
           ELSE /\ text' = r.content
                /\ ppc' = "call"
                /\ fpc' = "parse"
                /\ UNCHANGED <<template, lines, idx, sections, current_section,
                               current_questions, raised, result>>
    /\ UNCHANGED <<study_materials, past_papers, sm_i, doc_text, combined_text,
                   past_questions, difficulty_distribution, system_prompt,
                   user_prompt, stored, composed, ovars, wvars>>

\* lines 199-201: the document of _format_response is returned; an exception
\* that leaves it is caught and turned into an error result
GenerateReturn ==
    /\ fpc = "parse"
    /\ ppc \in {"done", "raised"}
    /\ result' = IF ppc = "done" THEN [sections |-> sections]
                 ELSE [error |-> GenerationErrorHead \o IndexErrorMessage]
    /\ fpc' = "result"
    /\ UNCHANGED <<study_materials, past_papers, sm_i, doc_text, combined_text,
                   past_questions, difficulty_distribution, system_prompt,
                   user_prompt, sent, stored, composed, pvars, ovars, wvars>>

\* lines 428-481: an error result is flashed and the request turned back,
\* anything else is inserted into generated_question_papers
StoreResult ==
    /\ fpc = "result"
    /\ IF "error" \in DOMAIN result
       THEN fpc' = "rejected" /\ UNCHANGED stored
       ELSE stored' = Append(stored, result) /\ fpc' = "stored"
    /\ UNCHANGED <<study_materials, past_papers, sm_i, doc_text, combined_text,
                   past_questions, difficulty_distribution, system_prompt,
                   user_prompt, sent, result, composed, pvars, ovars, wvars>>

GenNext == GenerateCall \/ ChatReply \/ GenerateReturn \/ StoreResult

(***************************************************************************)
(* A second call of _format_response, running concurrently with the first  *)
(* (one call per request).  Its arguments and locals are its own: the      *)
(* fields of `other`.                                                      *)
(***************************************************************************)
OtherState == [sections |-> other.sections,
               current_section |-> other.current_section,
               current_questions |-> other.current_questions,
               raised |-> FALSE]

\* lines 205-208
OtherBegin ==
    /\ other.pc = "call"
    /\ other' = [other EXCEPT !.lines = SplitLines(other.text),
                              !.idx = 1,
                              !.sections = EmptyDict,
                              !.current_section = None,
                              !.current_questions = <<>>,
                              !.pc = "loop"]
    /\ UNCHANGED <<pvars, fvars, gvars, wvars>>

\* lines 209-275
OtherLine_Shared ==
    /\ other.pc = "loop"
    /\ other.idx <= Len(other.lines)
    /\ LET st == FormatStep([OtherState EXCEPT !.current_questions = current_questions],
                            other.lines[other.idx], other.template)
       IN /\ other' = [other EXCEPT !.sections = st.sections,
                                    !.current_section = st.current_section,
                                    !.current_questions = st.current_questions,
                                    !.raised = st.raised,
                                    !.pc = IF st.raised THEN "raised" ELSE "loop",
                                    !.idx = @ + 1]
          /\ current_questions' = st.current_questions
    /\ UNCHANGED <<text, template, lines, idx, sections, current_section, raised,
                   ppc, fvars, gvars, wvars>>
OtherLine ==
    /\ other.pc = "loop"
    /\ other.idx <= Len(other.lines)
    /\ LET st == FormatStep(OtherState, other.lines[other.idx], other.template)
       IN other' = [other EXCEPT !.sections = st.sections,
                                 !.current_section = st.current_section,
                                 !.current_questions = st.current_questions,
                                 !.raised = st.raised,
                                 !.pc = IF st.raised THEN "raised" ELSE "loop",
                                 !.idx = @ + 1]
    /\ UNCHANGED <<pvars, fvars, gvars, wvars>>

\* lines 276-279
OtherReturn ==
    /\ other.pc = "loop"
    /\ other.idx > Len(other.lines)
    /\ other' = [other EXCEPT !.sections =
                                  IF Truthy(other.current_section)
                                  THEN DictSet(other.sections, other.current_section,
                                               other.current_questions)
                                  ELSE other.sections,
                              !.pc = "done"]
    /\ UNCHANGED <<pvars, fvars, gvars, wvars>>

OtherNext == OtherBegin \/ OtherLine \/ OtherReturn

(***************************************************************************)
(* Inputs.                                                                 *)
(***************************************************************************)
SeqsUpTo(S, n) == UNION {[1..k -> S] : k \in 0..n}
SeqsFrom1(S, n) == UNION {[1..k -> S] : k \in 1..n}

Concat(parts) == Join(parts, <<>>)

NameS == <<"S">>

\* Templates as create_template builds them (lines 341-361)
TemplateShort ==
    [sections |-> <<[name |-> NameS, type |-> "short_answer", questions |-> 2,
                     marks_per_question |-> 5]>>]
TemplateChoice ==
    [sections |-> <<[name |-> NameS, type |-> "multiple_choice", questions |-> 2,
                     marks_per_question |-> 1]>>]
Templates == {TemplateShort, TemplateChoice}

\* raw lines of a response: headers, item lines with and without tags,
\* continuation lines, blank lines
ParseLines ==
    {<<"*", "*", "S", "*", "*">>,
     <<" ", "*", "*", "T", "*", "*", " ">>,
     <<"*", "*", "*", "*">>,
     <<"*", "*", "S", "*", "*", " ", "x">>,
     <<"-", " ", "[", "E", "a", "s", "y", "]", "[", "2", " ", "M", "a", "r", "k", "s", "]", " ", "x", "?">>,
     <<"-", " ", "x", " ", "y">>,
     <<"-", " ", "[", "x", " ", "M", "a", "r", "k", "s", "]", " ", "x">>,
     <<"a", ")", " ", "x">>,
     <<"2", ".">>,
     <<" ", " ", "y", " ", "[", "H", "a", "r", "d", "]", " ">>,
     <<>>}

\* the response texts: up to MaxLines raw lines joined by newlines
ParseTexts == {Join(ls, <<"\n">>) : ls \in SeqsFrom1(ParseLines, MaxLines)}

\* texts of the options of a multiple-choice item line
OptionTexts ==
    {<<"P", "a", "r", "i", "s">>,
     <<"l", "y", "o", "n", " ", "x">>,
     <<"4">>}

\* an item line up to its first lettered marker
Stems ==
    {<<"-", " ", "W", "h", "?">>,
     <<"1", ".", " ", "x", " ", "y">>}


\* <stem> a) O1 b) O2 ...: each option after its lettered marker, in order
RECURSIVE ChoiceTail(_, _)
ChoiceTail(opts, n) ==
    IF n > Len(opts) THEN <<>>
    ELSE <<" ", LowerChars[n], ")", " ">> \o opts[n] \o ChoiceTail(opts, n + 1)

ChoiceLine(stem, opts) == stem \o ChoiceTail(opts, 1)

ChoiceText(stem, opts) == <<"*", "*", "S", "*", "*", "\n">> \o ChoiceLine(stem, opts)

ChoiceTexts == {ChoiceText(st, os) : st \in Stems, os \in SeqsFrom1(OptionTexts, MaxOptions)}

\* what page.get_text gives for a page
PageTexts ==
    {<<>>,
     <<" ", "\n">>,
     <<"x">>,
     <<" ", "x", " ", "\n", "\t", "y", " ">>}

NeverFails(pages) == Len(pages) + 1

Docs == {[pages |-> ps, fail_at |-> f] : ps \in SeqsUpTo(PageTexts, MaxPages), f \in 0..(MaxPages + 1)}

DocsOnePerFailure == {d \in Docs : d.fail_at <= NeverFails(d.pages)}

\* the documents of a batch: one fitz cannot open, a blank one, two good ones,
\* one that fails on its second page
BatchDocs ==
    {[pages |-> <<<<"x">>>>, fail_at |-> 0],
     [pages |-> <<<<" ">>>>, fail_at |-> 2],
     [pages |-> <<<<"x">>>>, fail_at |-> 2],
     [pages |-> <<<<"x">>, <<"y", " ", " ", "z">>>>, fail_at |-> 3],
     [pages |-> <<<<"x">>, <<"y">>>>, fail_at |-> 2]}

\* a one-page document that extracts
TextDoc(t) == [pages |-> <<t>>, fail_at |-> 2]

PaperBreak == <<"<break>">>     \* no text: the end of one past paper

QMarkers ==
    {<<"Q", "1", ".">>,
     <<"Q", "2", ".">>}

Bodies ==
    {<<" ", "w", "h", "a", "t", " ", "i", "s", " ", "x">>,
     <<" ", "[", "5", "]", " ">>,
     <<" ", "a", " ", "]", " ", "\n", " ", "[", "b", "\n", "c", "]", " ", "d", " ", "[">>}

OtherPieces ==
    {<<"Q", "u", "e", "s", "t", "i", "o", "n", " ", "3", ":">>,
     <<"P", "a", "r", "t", " ", "A", " ", "(", "i", ")">>}

HarvestPieces == QMarkers \cup Bodies \cup OtherPieces \cup {PaperBreak}

\* the past papers a sequence of pieces stands for: the text of each paper is
\* the pieces up to the next break
RECURSIVE PapersOf(_, _)
PapersOf(pieces, acc) ==
    IF pieces = <<>> THEN <<TextDoc(acc)>>
    ELSE IF pieces[1] = PaperBreak THEN <<TextDoc(acc)>> \o PapersOf(Tail(pieces), <<>>)
    ELSE PapersOf(Tail(pieces), acc \o pieces[1])

PaperBatches == {PapersOf(ps, <<>>) : ps \in SeqsUpTo(HarvestPieces, MaxPieces)}

\* the percentages of a request (lines 397-401)
Quotas == {[easy |-> 30, medium |-> 40, hard |-> 30],
           [easy |-> 0, medium |-> 100, hard |-> 0]}

\* source texts around the budget of the user instruction
TextOfLen(k) == [i \in 1..k |-> LowerChars[i]]
SourceLists == {IF k = 0 THEN <<>> ELSE <<TextOfLen(k)>> : k \in 0..(TextBudget + 2)}
                   \cup {<<TextOfLen(1), TextOfLen(TextBudget)>>}

\* past-question lists around the size of the sample: q1, q2, ...
PastOfLen(k) == [i \in 1..k |-> <<"q">> \o IntToStr(i)]
PastLists == {NoneList, <<<<>>>>} \cup {PastOfLen(k) : k \in 0..(MaxSample + 1)}

\* the arguments of the two runs of the composition
TwiceLists == {<<TextOfLen(2)>>, <<TextOfLen(TextBudget + 1)>>}
TwicePast == {NoneList, PastOfLen(1)}

\* the study documents and past papers of a whole request
EmptyDoc == [pages |-> <<<<" ", "\n">>>>, fail_at |-> 2]
BrokenDoc == [pages |-> <<<<"x">>>>, fail_at |-> 0]
RequestDocs == {TextDoc(<<"x">>), EmptyDoc, BrokenDoc}
RequestPapers ==
    {<<>>, <<TextDoc(<<"Q", "1", ".", " ", "[", "5", "]", " ", "Q", "2", ".", " ", "w", "h", "y">>)>>}

\* the texts of two concurrent calls of _format_response
PairTexts ==
    {<<>>,
     <<"*", "*", "S", "*", "*", "\n", "-", " ", "x", " ", "y", "\n", "y">>,
     <<"-", " ", "x", "\n", "*", "*", "T", "*", "*", "\n", "2", ".">>,
     <<"*", "*", "S", "*", "*", "\n", "-", " ", "[", "E", "a", "s", "y", "]", " ", "x", " ", "a", ")", " ", "P", " ", "b", ")", " ", "L">>,
     <<"*", "*", "S", "*", "*", "\n", "\n", "*", "*", "S", "*", "*", " ", "x">>}

\* item lines with and without difficulty and marks tags, under sections of
\* the Template and outside it
FieldLines ==
    {<<"*", "*", "S", "*", "*">>,
     <<"*", "*", "T", "*", "*">>,
     <<"-", " ", "[", "M", "e", "d", "i", "u", "m", "]", " ", "x">>,
     <<"1", ".", " ", "[", "H", "a", "r", "d", "]", "[", "1", "0", " ", " ", "M", "a", "r", "k", "s", "]", " ", "x">>,
     <<"-", " ", "[", "E", "a", "s", "y", "]", "[", "M", "e", "d", "i", "u", "m", "]", " ", "x">>,
     <<"-", " ", "x", " ", "y">>,
     <<"-", " ", "[", "m", "e", "d", "i", "u", "m", "]", " ", "x">>,
     <<"-", " ", "[", "0", " ", "M", "a", "r", "k", "s", "]", " ", "x", " ", "a", ")", " ", "P", " ", "b", ")", " ", "L">>,
     <<"y", " ", "[", "E", "a", "s", "y", "]">>}
FieldTexts == {Join(ls, <<"\n">>) : ls \in SeqsFrom1(FieldLines, MaxLines)}

\* raw lines with several difficulty tags, and continuation lines that carry
\* tags and option markers
TagLines ==
    {<<"*", "*", "S", "*", "*">>,
     <<"-", " ", "[", "H", "a", "r", "d", "]", "[", "E", "a", "s", "y", "]", " ", "x">>,
     <<"-", " ", "[", "M", "e", "d", "i", "u", "m", "]", "[", "H", "a", "r", "d", "]", " ", "x", " ", "a", ")", " ", "P", " ", "b", ")", " ", "L">>,
     <<"-", " ", "x", " ", "[", "M", "e", "d", "i", "u", "m", "]", " ", "y", " ", "[", "E", "a", "s", "y", "]">>,
     <<"c", ")", " ", "z", " ", "[", "3", " ", "M", "a", "r", "k", "s", "]", " ", "[", "H", "a", "r", "d", "]", " ", "d", ")", " ", "w">>,
     <<"[", "2", " ", "M", "a", "r", "k", "s", "]", " ", "y">>}
TagTexts == {Join(ls, <<"\n">>) : ls \in SeqsFrom1(TagLines, MaxLines)}

\* a further call of generate_questions, on new arguments: the second of two
\* runs of the composition
Again ==
    /\ fpc \in {"rejected", "stored"}
    /\ Len(composed) <= 1
    /\ combined_text' \in TwiceLists
    /\ past_questions' \in TwicePast
    /\ template' \in Templates
    /\ system_prompt' = <<>>
    /\ user_prompt' = <<>>
    /\ result' = NoResult
    /\ text' = <<>>
    /\ lines' = <<>>
    /\ idx' = 0
    /\ sections' = EmptyDict
    /\ current_section' = None
    /\ current_questions' = <<>>
    /\ raised' = FALSE
    /\ ppc' = "idle"
    /\ fpc' = "generate"
    /\ UNCHANGED <<study_materials, past_papers, sm_i, doc_text,
                   difficulty_distribution, sent, stored, composed, ovars, wvars>>

(***************************************************************************)
(* index(): the template steps and the step 'generate' of one session      *)
(* (lines 323-487).  The session keeps the template under                  *)
(* 'custom_template'; a row of question_paper_templates is                 *)
(* [structure, request], a row of generated_question_papers is             *)
(* [template_id, content, is_edited, request], where request is the number *)
(* of the generate request that inserted the row; the id of a row is its   *)
(* position.  json.dumps and json.loads are applied to dicts with str      *)
(* keys, lists, strs and ints only, on which json.loads(json.dumps(v))     *)
(* equals v: a column holds the value.  The model has one teacher, so the  *)
(* created_by columns are left out.  db.writer is the connection that      *)
(* holds the write lock of the database file, 0 when there is none.        *)
(***************************************************************************)
NoTemplate == [absent |-> TRUE]
EmptyDb == [templates |-> <<>>, papers |-> <<>>, writer |-> 0]
NoRows == [templates |-> <<>>, papers |-> <<>>]

\* request.form.get('template_id'): 0 for a missing or empty field, BadId for
\* a field int() rejects
BadId == -1

\* the generate request at hand: its number, the form's template_id, the local
\* template_id and the rows of its open transaction
NoRequest == [n |-> 0, form_id |-> 0, template_id |-> 0, pending |-> NoRows]

\* index() is between two requests
Between == fpc \in {"idle", "rejected", "stored"}

\* the templates a create_template form can describe: line 362 turns back a
\* form with no complete section
FormTemplates == Templates \cup {[sections |-> <<>>]}

\* the uploads of a generate request
FormStudy == {<<>>, <<TextDoc(<<"x">>)>>, <<EmptyDoc>>}

\* lines 338-369: step 'create_template'
CreateTemplate ==
    /\ Between
    /\ \E tpl \in FormTemplates :
           session' = IF tpl.sections = <<>> THEN session ELSE tpl
    /\ UNCHANGED <<pvars, fvars, gvars, ovars, db, request, files, reqs>>

\* lines 323-337: step 'choose_saved_template'; id 0 is a form without
\* template_id or with the id of no row
ChooseSaved ==
    /\ Between
    /\ \E id \in 0..Len(db.templates) :
           session' = IF id = 0 THEN session ELSE db.templates[id].structure
    /\ UNCHANGED <<pvars, fvars, gvars, ovars, db, request, files, reqs>>

\* lines 370-403: step 'generate' up to the extraction loop
GenerateStep ==
    /\ Between
    /\ request.n < MaxRequests
    /\ \E id \in {0, BadId} \cup (1..Len(db.templates)), sm \in FormStudy :
           /\ request' = [n |-> request.n + 1, form_id |-> id, template_id |-> id,
                          pending |-> NoRows]
           /\ IF session = NoTemplate \/ "sections" \notin DOMAIN session \/ sm = <<>>
              THEN /\ fpc' = "rejected"
                   /\ UNCHANGED <<study_materials, past_papers, sm_i, doc_text,
                                  combined_text, past_questions, pvars,
                                  difficulty_distribution, system_prompt, user_prompt,
                                  result>>
              ELSE /\ template' = session
                   /\ study_materials' = sm
                   /\ past_papers' = <<>>
                   /\ difficulty_distribution' = [easy |-> 30, medium |-> 40, hard |-> 30]
                   /\ sm_i' = 1
                   /\ doc_text' = <<>>
                   /\ combined_text' = <<>>
                   /\ past_questions' = NoneList
                   /\ system_prompt' = <<>>
                   /\ user_prompt' = <<>>
                   /\ result' = NoResult
                   /\ text' = <<>>
                   /\ lines' = <<>>
                   /\ idx' = 0
                   /\ sections' = EmptyDict
                   /\ current_section' = None
                   /\ current_questions' = <<>>
                   /\ raised' = FALSE
                   /\ ppc' = "idle"
                   /\ fpc' = "extract"
    /\ UNCHANGED <<sent, stored, composed, ovars, session, db, files, reqs>>

\* lines 428-431: an error result turns the request back, any other result
\* goes to the saving
ResultCheck ==
    /\ fpc = "result"
    /\ fpc' = IF "error" \in DOMAIN result THEN "rejected" ELSE "save"
    /\ UNCHANGED <<study_materials, past_papers, sm_i, doc_text, combined_text,
                   past_questions, pvars, gvars, ovars, wvars>>

\* lines 433-451 with the insert committed at once
SaveTemplate_Autocommit ==
    /\ fpc = "save"
    /\ \E ok \in BOOLEAN :
           IF ~ok
           THEN fpc' = "rollback" /\ UNCHANGED <<request, db>>
           ELSE /\ fpc' = "paper"
                /\ IF request.form_id = 0
                   THEN /\ db' = [db EXCEPT !.templates =
                                      Append(@, [structure |-> template,
                                                 request |-> request.n])]
                        /\ request' = [request EXCEPT
                                           !.template_id = Len(db.templates) + 1]
                   ELSE UNCHANGED <<request, db>>
    /\ UNCHANGED <<study_materials, past_papers, sm_i, doc_text, combined_text,
                   past_questions, pvars, gvars, ovars, session, files, reqs>>

\* lines 433-451: the template row, when the form names no template; the
\* statement may raise
SaveTemplate ==
    /\ fpc = "save"
    /\ \E ok \in BOOLEAN :
           IF ~ok
           THEN fpc' = "rollback" /\ UNCHANGED request
           ELSE /\ fpc' = "paper"
                /\ request' =
                       IF request.form_id = 0
                       THEN [request EXCEPT
                                !.pending.templates =
                                    Append(@, [structure |-> template,
                                               request |-> request.n]),
                                !.template_id = Len(db.templates) + 1]
                       ELSE request
    /\ UNCHANGED <<study_materials, past_papers, sm_i, doc_text, combined_text,
                   past_questions, pvars, gvars, ovars, session, db, files, reqs>>

\* lines 452-463: the paper row; int(template_id) or the statement may raise
SavePaper ==
    /\ fpc = "paper"
    /\ \E ok \in BOOLEAN :
           IF ~ok \/ request.template_id = BadId
           THEN fpc' = "rollback" /\ UNCHANGED request
           ELSE /\ fpc' = "commit"
                /\ request' = [request EXCEPT
                                  !.pending.papers =
                                      Append(@, [template_id |-> request.template_id,
                                                 content |-> result,
                                                 is_edited |-> FALSE,
                                                 request |-> request.n])]
    /\ UNCHANGED <<study_materials, past_papers, sm_i, doc_text, combined_text,
                   past_questions, pvars, gvars, ovars, session, db, files, reqs>>

\* line 464: the commit makes the rows of the transaction rows of the tables
CommitPaper ==
    /\ fpc = "commit"
    /\ \E ok \in BOOLEAN :
           IF ~ok
           THEN fpc' = "rollback" /\ UNCHANGED <<request, db>>
           ELSE /\ fpc' = "cleanup"
                /\ db' = [db EXCEPT !.templates = @ \o request.pending.templates,
                                    !.papers = @ \o request.pending.papers]
                /\ request' = [request EXCEPT !.pending = NoRows]
    /\ UNCHANGED <<study_materials, past_papers, sm_i, doc_text, combined_text,
                   past_questions, pvars, gvars, ovars, session, files, reqs>>

\* lines 465-481 without line 480
CleanUp_KeepTemplate ==
    /\ fpc = "cleanup"
    /\ stored' = Append(stored, result)
    /\ fpc' = "stored"
    /\ UNCHANGED <<study_materials, past_papers, sm_i, doc_text, combined_text,
                   past_questions, pvars, difficulty_distribution, system_prompt,
                   user_prompt, sent, result, composed, ovars, session, db, request,
                   files, reqs>>

\* lines 465-481: the template leaves the session (the removal of the
\* uploads is the step UploadCleanUp of the concurrent requests)
CleanUp ==
    /\ fpc = "cleanup"
    /\ session' = NoTemplate
    /\ stored' = Append(stored, result)
    /\ fpc' = "stored"
    /\ UNCHANGED <<study_materials, past_papers, sm_i, doc_text, combined_text,
                   past_questions, pvars, difficulty_distribution, system_prompt,
                   user_prompt, sent, result, composed, ovars, db, request, files,
                   reqs>>

\* lines 482-487: the rows of the transaction are dropped
Rollback ==
    /\ fpc = "rollback"
    /\ request' = [request EXCEPT !.pending = NoRows]
    /\ fpc' = "rejected"
    /\ UNCHANGED <<study_materials, past_papers, sm_i, doc_text, combined_text,
                   past_questions, pvars, gvars, ovars, session, db, files, reqs>>

SessionNext == CreateTemplate \/ ChooseSaved \/ GenerateStep \/ ResultCheck
                   \/ SaveTemplate \/ SavePaper \/ CommitPaper \/ CleanUp \/ Rollback

(***************************************************************************)
(* save_uploaded_files (lines 281-297) and the uploads of two concurrent   *)
(* generate requests (lines 378-420, 465-479).  A path is                  *)
(* <<file_type, filename>>: the folder instance_path/uploads/<file_type>   *)
(* and the file name in it.  An uploaded file is its client-side file name;*)
(* its content is the document of the request that uploads it.  The        *)
(* locals of request r are the fields of reqs[r].                          *)
(***************************************************************************)
StudyFolder == <<"s", "t", "u", "d", "y", "_", "m", "a", "t", "e", "r", "i", "a", "l", "s">>
PastFolder == <<"p", "a", "s", "t", "_", "p", "a", "p", "e", "r", "s">>
PdfSuffix == <<".", "p", "d", "f">>

\* s.strip("._")
RECURSIVE StripDots(_)
StripDots(s) ==
    IF s # <<>> /\ s[1] \in {".", "_"} THEN StripDots(Tail(s))
    ELSE IF s # <<>> /\ s[Len(s)] \in {".", "_"} THEN StripDots(SubSeq(s, 1, Len(s) - 1))
    ELSE s

\* werkzeug's secure_filename on ASCII names without path separators:
\* "_".join(s.split()), the characters outside [A-Za-z0-9_.-] dropped,
\* then strip("._")
secure_filename(s) ==
    StripDots(SelectSeq(ReplaceChar(Strip(CollapseSpace(s)), " ", "_"),
                        LAMBDA c : IsLetter(c) \/ IsDigit(c) \/ c \in {"_", ".", "-"}))

\* file.filename.lower().endswith('.pdf')
IsPdf(filename) ==
    /\ Len(filename) >= 4
    /\ [i \in 1..4 |-> Fold(filename[Len(filename) - 4 + i])] = PdfSuffix

\* lines 289-290: the path of the i-th file of the list (i from 0)
UploadPath(file_type, i, filename) ==
    <<file_type, secure_filename(file_type \o <<"_">> \o IntToStr(i) \o <<"_">> \o filename)>>

\* the number of files the loop of line 286 saves: those before the first
\* name that is no pdf
SavedCount(names) ==
    LET bad == {i \in 1..Len(names) : ~IsPdf(names[i])}
    IN IF bad = {} THEN Len(names) ELSE Min(bad) - 1

\* the paths the loop has saved
SavedPaths(file_type, names) ==
    [i \in 1..SavedCount(names) |-> UploadPath(file_type, i - 1, names[i])]

\* the upload folders after file.save of every saved path
SaveFiles(fs, file_type, names, doc) ==
    LET new == Range(SavedPaths(file_type, names))
    IN [p \in DOMAIN fs \cup new |-> IF p \in new THEN doc ELSE fs[p]]

\* what save_uploaded_files returns: <<>> for None
save_uploaded_files(names, file_type) ==
    IF SavedCount(names) < Len(names) THEN <<>> ELSE SavedPaths(file_type, names)

\* the upload folders after os.remove of the paths that exist
RemoveFiles(fs, paths) == [p \in DOMAIN fs \ Range(paths) |-> fs[p]]

\* fitz.open of a path that does not exist raises
MissingFile == [pages |-> <<>>, fail_at |-> 0]
FileAt(fs, path) == IF path \in DOMAIN fs THEN fs[path] ELSE MissingFile

\* valid_past_papers = [...][:5]
PastLimit == 5

Requests == {1, 2}

\* the document request r uploads under every file name, and its text
StudyDoc(r) == TextDoc(IF r = 1 THEN <<"x">> ELSE <<"y">>)
PaperDoc(r) == TextDoc(<<"Q", "1", ".", " ">> \o (IF r = 1 THEN <<"x">> ELSE <<"y">>))

NameA == <<"a", ".", "p", "d", "f">>
NameB == <<"m", "y", " ", "b", ".", "P", "D", "F">>
NameC == <<"c", ".", "t", "x", "t">>

\* the file names of the study materials and of the past papers of a request
StudyUploads == {<<NameA>>, <<NameB>>, <<NameA, NameB>>, <<NameC>>, <<NameA, NameC>>}
PastUploads == {<<>>, <<NameA>>}

\* lines 378-384: the study materials are saved
UploadStudy ==
    \E r \in Requests :
        /\ reqs[r].pc = "upload"
        /\ files' = SaveFiles(files, StudyFolder, reqs[r].study, StudyDoc(r))
        /\ LET saved == save_uploaded_files(reqs[r].study, StudyFolder)
           IN reqs' = [reqs EXCEPT ![r].study_materials = saved,
                                   ![r].pc = IF saved = <<>> THEN "rejected" ELSE "past"]
        /\ UNCHANGED <<pvars, fvars, gvars, ovars, session, db, request>>

\* lines 386-396: the past papers, when there are any
UploadPast ==
    \E r \in Requests :
        /\ reqs[r].pc = "past"
        /\ LET valid == Prefix(reqs[r].past, PastLimit)
           IN /\ files' = SaveFiles(files, PastFolder, valid, PaperDoc(r))
              /\ reqs' = [reqs EXCEPT ![r].past_papers =
                                          save_uploaded_files(valid, PastFolder),
                                      ![r].pc = "extract"]
        /\ UNCHANGED <<pvars, fvars, gvars, ovars, session, db, request>>

\* lines 404-407: one iteration of the loop over study_materials
UploadExtract ==
    \E r \in Requests :
        /\ reqs[r].pc = "extract"
        /\ reqs[r].i <= Len(reqs[r].study_materials)
        /\ LET t == extract_text_from_pdf(FileAt(files, reqs[r].study_materials[reqs[r].i]))
           IN reqs' = [reqs EXCEPT ![r].combined_text = IF Truthy(t) THEN Append(@, t) ELSE @,
                                   ![r].i = @ + 1]
        /\ UNCHANGED <<pvars, fvars, gvars, ovars, session, db, request, files>>

\* lines 408-420: nothing extracted turns the request back; the past
\* questions are harvested from the past papers
UploadHarvest ==
    \E r \in Requests :
        /\ reqs[r].pc = "extract"
        /\ reqs[r].i > Len(reqs[r].study_materials)
        /\ reqs' = IF reqs[r].combined_text = <<>>
                   THEN [reqs EXCEPT ![r].pc = "rejected"]
                   ELSE [reqs EXCEPT
                            ![r].past_questions =
                                IF reqs[r].past_papers # <<>>
                                THEN extract_questions_from_past_papers(
                                         [k \in DOMAIN reqs[r].past_papers |->
                                              FileAt(files, reqs[r].past_papers[k])])
                                ELSE NoneList,
                            ![r].pc = "generate"]
        /\ UNCHANGED <<pvars, fvars, gvars, ovars, session, db, request, files>>

\* lines 422-464 and 482-487: the generation and the saving succeed or turn
\* the request back
UploadGenerate ==
    \E r \in Requests :
        /\ reqs[r].pc = "generate"
        /\ \E ok \in BOOLEAN :
               reqs' = [reqs EXCEPT ![r].pc = IF ok THEN "cleanup" ELSE "rejected"]
        /\ UNCHANGED <<pvars, fvars, gvars, ovars, session, db, request, files>>

\* lines 465-481: the uploads of the request are removed
UploadCleanUp ==
    \E r \in Requests :
        /\ reqs[r].pc = "cleanup"
        /\ files' = RemoveFiles(files, reqs[r].study_materials \o reqs[r].past_papers)
        /\ reqs' = [reqs EXCEPT ![r].pc = "done"]
        /\ UNCHANGED <<pvars, fvars, gvars, ovars, session, db, request>>

UploadNext == UploadStudy \/ UploadPast \/ UploadExtract \/ UploadHarvest
                  \/ UploadGenerate \/ UploadCleanUp

(***************************************************************************)
(* edit_paper (lines 545-583), two requests at a time.  The JSON body is a *)
(* dict: section name -> list of patches.  A patch is [dict, keys]: dict   *)
(* is FALSE for a JSON value that is no object (dict.update raises on it), *)
(* keys are the keys of the object; the value a patch gives to a key is    *)
(* PatchValues of the key.  The locals of request r are the fields of      *)
(* reqs[r]; every request has a connection of its own.                     *)
(***************************************************************************)
PatchValues == [text |-> <<"e">>, difficulty |-> "hard", marks |-> 9, note |-> <<"n">>]

Patch(keys) == [dict |-> TRUE, keys |-> keys]
NoObject == [dict |-> FALSE, keys |-> {}]

\* question.update(patch)
UpdateQuestion(q, patch) ==
    [k \in DOMAIN q \cup patch.keys |-> IF k \in patch.keys THEN PatchValues[k] ELSE q[k]]

\* the (section, index) pairs the loops of lines 561-565 reach
EditTargets(content, edits) ==
    UNION {{<<s, i>> : i \in 1..Min({Len(edits[s]), Len(content.sections[s])})} :
               s \in DOMAIN edits \cap DOMAIN content.sections}

\* dict.update raises TypeError in the loops
EditRaises(content, edits) ==
    \E t \in EditTargets(content, edits) : ~edits[t[1]][t[2]].dict

\* lines 561-565 with a patch past the end of a section appended to it
ApplyEdits_Append(content, edits) ==
    [sections |->
         [s \in DOMAIN content.sections |->
              IF s \in DOMAIN edits
              THEN [i \in 1..Len(edits[s]) |->
                        IF i <= Len(content.sections[s])
                        THEN UpdateQuestion(content.sections[s][i], edits[s][i])
                        ELSE UpdateQuestion(<<>>, edits[s][i])]
              ELSE content.sections[s]]]

\* lines 561-565: the content after the loops, when nothing raises
ApplyEdits(content, edits) ==
    [sections |->
         [s \in DOMAIN content.sections |->
              IF s \in DOMAIN edits
              THEN [i \in 1..Len(content.sections[s]) |->
                        IF i <= Len(edits[s])
                        THEN UpdateQuestion(content.sections[s][i], edits[s][i])
                        ELSE content.sections[s][i]]
              ELSE content.sections[s]]]

\* the replies of edit_paper
ReplySuccess == [success |-> TRUE, status |-> 200]
ReplyUnauthorized == [success |-> FALSE, status |-> 403]
ReplyNotFound == [success |-> FALSE, status |-> 404]
ReplyError == [success |-> FALSE, status |-> 500]
NoReply == [success |-> FALSE, status |-> 0]

NameT == <<"T">>

\* the Question of the item line "- x y" in a short_answer section
QuestionXY == [text |-> <<"-", " ", "x", " ", "y">>, difficulty |-> "medium", marks |-> 0]

\* documents as generate_questions returns them
PaperDocs == {[sections |-> (NameS :> <<QuestionXY>>)],
              [sections |-> (NameS :> <<QuestionXY, QuestionXY>>)]}

\* JSON bodies: a patch of the first question, of the second, of a section
\* the paper has not, of an index past the end, with a new key, and one
\* that is no object
EditBodies ==
    {(NameS :> <<Patch({"text"})>>),
     (NameS :> <<Patch({}), Patch({"difficulty"})>>),
     (NameT :> <<Patch({"text"})>>),
     (NameS :> <<Patch({}), Patch({}), Patch({"marks"})>>),
     (NameS :> <<Patch({"note"})>>),
     (NameS :> <<NoObject>>)}

\* the requests: a teacher's on paper 1 with every body, a student's, and a
\* teacher's on a paper that does not exist
EditRequests ==
    {[user |-> "teacher", paper_id |-> 1, edits |-> e] : e \in EditBodies}
        \cup {[user |-> "student", paper_id |-> 1, edits |-> (NameS :> <<Patch({"text"})>>)],
              [user |-> "teacher", paper_id |-> 2, edits |-> (NameS :> <<Patch({"text"})>>)]}

\* the request that has not been sent
IdleEdit == [pc |-> "idle", n |-> 0, user |-> "teacher", paper_id |-> 1,
             edits |-> (NameS :> <<Patch({})>>), content |-> [sections |-> EmptyDict],
             reply |-> NoReply]

\* lines 547-552: the request arrives; anyone but a teacher is turned away
EditBegin ==
    \E r \in Requests :
        /\ reqs[r].pc \in {"idle", "done"}
        /\ reqs[1].n + reqs[2].n < MaxEdits
        /\ \E q \in EditRequests :
               reqs' = [reqs EXCEPT ![r] =
                           [pc |-> IF q.user = "teacher" THEN "read" ELSE "done",
                            n |-> reqs[r].n + 1,
                            user |-> q.user,
                            paper_id |-> q.paper_id,
                            edits |-> q.edits,
                            content |-> [sections |-> EmptyDict],
                            reply |-> IF q.user = "teacher" THEN NoReply
                                      ELSE ReplyUnauthorized]]
        /\ UNCHANGED <<pvars, fvars, gvars, ovars, session, db, request, files>>

\* lines 555-560: the row is read and its content decoded
EditRead ==
    \E r \in Requests :
        /\ reqs[r].pc = "read"
        /\ reqs' = IF reqs[r].paper_id \in DOMAIN db.papers
                   THEN [reqs EXCEPT ![r].content = db.papers[reqs[r].paper_id].content,
                                     ![r].pc = "update"]
                   ELSE [reqs EXCEPT ![r].reply = ReplyNotFound, ![r].pc = "done"]
        /\ UNCHANGED <<pvars, fvars, gvars, ovars, session, db, request, files>>

\* lines 561-572: the patches are applied to the decoded content and the
\* UPDATE takes the write lock; it raises when dict.update raises, and when
\* another connection keeps the lock for longer than the timeout
EditUpdate ==
    \E r \in Requests :
        /\ reqs[r].pc = "update"
        /\ IF EditRaises(reqs[r].content, reqs[r].edits)
           THEN /\ reqs' = [reqs EXCEPT ![r].reply = ReplyError, ![r].pc = "done"]
                /\ UNCHANGED db
           ELSE \/ /\ db.writer = 0
                   /\ db' = [db EXCEPT !.writer = r]
                   /\ reqs' = [reqs EXCEPT
                                  ![r].content = ApplyEdits(reqs[r].content, reqs[r].edits),
                                  ![r].pc = "commit"]
                \/ /\ db.writer # 0
                   /\ reqs' = [reqs EXCEPT ![r].reply = ReplyError, ![r].pc = "done"]
                   /\ UNCHANGED db
        /\ UNCHANGED <<pvars, fvars, gvars, ovars, session, request, files>>

\* lines 574-583: the commit stores the content and marks the row edited;
\* when it raises the transaction is rolled back
EditCommit ==
    \E r \in Requests :
        /\ reqs[r].pc = "commit"
        /\ \E ok \in BOOLEAN :
               IF ok
               THEN /\ db' = [db EXCEPT !.papers[reqs[r].paper_id].content = reqs[r].content,
                                        !.papers[reqs[r].paper_id].is_edited = TRUE,
                                        !.writer = 0]
                    /\ reqs' = [reqs EXCEPT ![r].reply = ReplySuccess, ![r].pc = "done"]
               ELSE /\ db' = [db EXCEPT !.writer = 0]
                    /\ reqs' = [reqs EXCEPT ![r].reply = ReplyError, ![r].pc = "done"]
        /\ UNCHANGED <<pvars, fvars, gvars, ovars, session, request, files>>

EditNext == EditBegin \/ EditRead \/ EditUpdate \/ EditCommit

(***************************************************************************)
(* Specifications: the same operations from different inputs.              *)
(***************************************************************************)
ParserIdle ==
    /\ text = <<>>
    /\ template = TemplateShort
    /\ lines = <<>>
    /\ idx = 0
    /\ sections = EmptyDict
    /\ current_section = None
    /\ current_questions = <<>>
    /\ raised = FALSE
    /\ ppc = "idle"

ParserCalled ==
    /\ lines = <<>>
    /\ idx = 0
    /\ sections = EmptyDict
    /\ current_section = None
    /\ current_questions = <<>>
    /\ raised = FALSE
    /\ ppc = "call"

FlowIdle ==
    /\ study_materials = <<>>
    /\ past_papers = <<>>
    /\ sm_i = 0
    /\ doc_text = <<>>
    /\ combined_text = <<>>
    /\ past_questions = NoneList
    /\ fpc = "idle"

FlowStarted ==
    /\ sm_i = 1
    /\ doc_text = <<>>
    /\ combined_text = <<>>
    /\ past_questions = NoneList
    /\ fpc = "extract"

GenIdle ==
    /\ difficulty_distribution = [easy |-> 30, medium |-> 40, hard |-> 30]
    /\ system_prompt = <<>>
    /\ user_prompt = <<>>
    /\ sent = <<>>
    /\ result = NoResult
    /\ stored = <<>>
    /\ composed = <<>>

GenCalled ==
    /\ system_prompt = <<>>
    /\ user_prompt = <<>>
    /\ sent = <<>>
    /\ result = NoResult
    /\ stored = <<>>
    /\ composed = <<>>

ParserUncalled ==
    /\ text = <<>>
    /\ lines = <<>>
    /\ idx = 0
    /\ sections = EmptyDict
    /\ current_section = None
    /\ current_questions = <<>>
    /\ raised = FALSE
    /\ ppc = "idle"

OtherIdle ==
    other = [text |-> <<>>, template |-> TemplateShort, lines |-> <<>>, idx |-> 0,
             sections |-> EmptyDict, current_section |-> None,
             current_questions |-> <<>>, raised |-> FALSE, pc |-> "idle"]

OtherCalled ==
    other \in {[text |-> t, template |-> tpl, lines |-> <<>>, idx |-> 0,
                sections |-> EmptyDict, current_section |-> None,
                current_questions |-> <<>>, raised |-> FALSE, pc |-> "call"] :
                   t \in PairTexts, tpl \in Templates}

WebIdle ==
    /\ session = NoTemplate
    /\ db = EmptyDb
    /\ request = NoRequest
    /\ files = EmptyDict
    /\ reqs = <<>>

\* _format_response on the response texts
InitParse == text \in ParseTexts /\ template \in Templates /\ ParserCalled /\ FlowIdle /\ GenIdle /\ OtherIdle /\ WebIdle
SpecParse == InitParse /\ [][ParseNext]_vars

\* _format_response on multiple-choice item lines
InitChoice == text \in ChoiceTexts /\ template \in Templates /\ ParserCalled /\ FlowIdle /\ GenIdle /\ OtherIdle /\ WebIdle
SpecChoice == InitChoice /\ [][ParseNext]_vars

\* the request's extraction on one study document
InitExtract ==
    /\ study_materials \in {<<d>> : d \in DocsOnePerFailure}
    /\ past_papers = <<>>
    /\ FlowStarted /\ ParserIdle /\ GenIdle /\ OtherIdle /\ WebIdle
SpecExtract == InitExtract /\ [][FlowNext]_vars

\* the request's extraction on a batch of study documents
InitBatch ==
    /\ study_materials \in SeqsFrom1(BatchDocs, MaxDocs)
    /\ past_papers = <<>>
    /\ FlowStarted /\ ParserIdle /\ GenIdle /\ OtherIdle /\ WebIdle
SpecBatch == InitBatch /\ [][FlowNext]_vars

\* the request's harvesting of past papers
InitHarvest ==
    /\ study_materials = <<TextDoc(<<"x">>)>>
    /\ past_papers \in PaperBatches
    /\ FlowStarted /\ ParserIdle /\ GenIdle /\ OtherIdle /\ WebIdle
SpecHarvest == InitHarvest /\ [][FlowNext]_vars

\* generate_questions at line 422: called on arguments of its own, or reached
\* by a whole request from its study documents and past papers
InitDirect ==
    /\ study_materials = <<>>
    /\ past_papers = <<>>
    /\ sm_i = 1
    /\ doc_text = <<>>
    /\ combined_text \in SourceLists
    /\ past_questions \in PastLists
    /\ fpc = "generate"
InitRequest ==
    /\ study_materials \in SeqsFrom1(RequestDocs, 2)
    /\ past_papers \in RequestPapers
    /\ FlowStarted
InitGenerate ==
    /\ InitDirect \/ InitRequest
    /\ template \in Templates
    /\ difficulty_distribution \in Quotas
    /\ ParserUncalled /\ GenCalled /\ OtherIdle /\ WebIdle
SpecGenerate == InitGenerate /\ [][FlowNext \/ GenNext \/ ParseNext]_vars

\* two runs of generate_questions, one after the other
InitTwice ==
    /\ study_materials = <<>>
    /\ past_papers = <<>>
    /\ sm_i = 1
    /\ doc_text = <<>>
    /\ combined_text \in TwiceLists
    /\ past_questions \in TwicePast
    /\ fpc = "generate"
    /\ template \in Templates
    /\ difficulty_distribution = [easy |-> 30, medium |-> 40, hard |-> 30]
    /\ ParserUncalled /\ GenCalled /\ OtherIdle /\ WebIdle
SpecTwice == InitTwice /\ [][GenNext \/ ParseNext \/ Again]_vars

\* _format_response on item lines with and without tags
InitFields == text \in FieldTexts /\ template \in Templates /\ ParserCalled /\ FlowIdle
                  /\ GenIdle /\ OtherIdle /\ WebIdle
SpecFields == InitFields /\ [][ParseNext]_vars

\* _format_response on item lines with several tags and tagged continuations
InitTags == text \in TagTexts /\ template \in Templates /\ ParserCalled /\ FlowIdle
                /\ GenIdle /\ OtherIdle /\ WebIdle
SpecTags == InitTags /\ [][ParseNext]_vars

\* two concurrent calls of _format_response
InitPair == text \in PairTexts /\ template \in Templates /\ ParserCalled /\ FlowIdle
                /\ GenIdle /\ OtherCalled /\ WebIdle
SpecPair == InitPair /\ [][ParseNext \/ OtherNext]_vars

\* the steps of index() in one session, request after request
InitSession ==
    /\ template = TemplateShort
    /\ ParserUncalled /\ FlowIdle /\ GenIdle /\ OtherIdle /\ WebIdle
SpecSession == InitSession /\ [][SessionNext \/ FlowNext \/ GenerateCall \/ ChatReply
                                    \/ GenerateReturn \/ ParseNext]_vars

\* the uploads of two concurrent generate requests
UploadOf(study, past) ==
    [pc |-> "upload", study |-> study, past |-> past, study_materials |-> <<>>,
     past_papers |-> <<>>, i |-> 1, combined_text |-> <<>>, past_questions |-> NoneList]
InitUpload ==
    /\ reqs \in {[r \in Requests |-> IF r = 1 THEN a ELSE b] :
                    a, b \in {UploadOf(s, p) : s \in StudyUploads, p \in PastUploads}}
    /\ session = NoTemplate
    /\ db = EmptyDb
    /\ request = NoRequest
    /\ files = EmptyDict
    /\ ParserIdle /\ FlowIdle /\ GenIdle /\ OtherIdle
SpecUpload == InitUpload /\ [][UploadNext]_vars

\* edit_paper requests, two at a time, on a generated paper
InitEdit ==
    /\ \E c \in PaperDocs :
           db = [templates |-> <<[structure |-> TemplateShort, request |-> 1]>>,
                 papers |-> <<[template_id |-> 1, content |-> c, is_edited |-> FALSE,
                               request |-> 1]>>,
                 writer |-> 0]
    /\ reqs = [r \in Requests |-> IdleEdit]
    /\ session = NoTemplate
    /\ request = NoRequest
    /\ files = EmptyDict
    /\ ParserIdle /\ FlowIdle /\ GenIdle /\ OtherIdle
SpecEdit == InitEdit /\ [][EditNext]_vars

Init == InitParse \/ InitChoice \/ InitExtract \/ InitBatch \/ InitHarvest
            \/ InitGenerate \/ InitTwice \/ InitFields \/ InitPair \/ InitTags
            \/ InitSession \/ InitUpload \/ InitEdit
Next == ParseNext \/ FlowNext \/ GenNext \/ Again \/ OtherNext \/ SessionNext
            \/ UploadNext \/ EditNext
Spec == Init /\ [][Next]_vars

(***************************************************************************)
(* Properties of _format_response.                                         *)
(***************************************************************************)
\* the stripped line the loop has just processed (idx > 1)
LastLine == Strip(lines[idx - 1])

\* the loop has just processed a question item line under an open section
ItemParsed ==
    /\ ppc \in {"loop", "done"}
    /\ idx > 1
    /\ Truthy(current_section)
    /\ SectionMatch(LastLine) = None
    /\ \/ StartsWith(LastLine, Bullet)
       \/ StartsWith(LastLine, MarkerA)
       \/ StartsWith(LastLine, MarkerB)
       \/ (LastLine # <<>> /\ IsDigit(LastLine[1]))

LastQuestion == current_questions[Len(current_questions)]

\* C1: a question item line that carries no [N Marks] tag with an integer N,
\* parsed under a section named like a Template section, gets the
\* marks_per_question of that Template section.
C1_MarksFallback ==
    (ItemParsed /\ MarksSearch(LastLine) = 0)
        => \A i \in DOMAIN template.sections :
               template.sections[i].name = current_section
                   => LastQuestion.marks = template.sections[i].marks_per_question

RoundTripText == <<"*", "*", "S", "*", "*", "\n", "-", " ", "[", "E", "a", "s", "y", "]", "[", "2", " ", "M", "a", "r", "k", "s", "]", " ", "x", "?">>

\* C2: the header **S** and one line "- [Easy][2 Marks] <body>", with a
\* short_answer Template section S, parse to exactly one section S holding
\* exactly one Question: text <body>, difficulty easy, marks 2.
C2_RoundTrip ==
    (ppc = "done" /\ template = TemplateShort /\ text = RoundTripText)
        => sections = (NameS :> <<[text |-> <<"x", "?">>, difficulty |-> "easy", marks |-> 2]>>)

\* the loop is about to process a continuation line: a non-empty line that is
\* no section header and starts no item, in an open section whose accumulator
\* is not empty
ContinuationLine ==
    /\ ppc = "loop"
    /\ idx <= Len(lines)
    /\ Truthy(current_section)
    /\ current_questions # <<>>
    /\ LET l == Strip(lines[idx])
       IN /\ l # <<>>
          /\ SectionMatch(l) = None
          /\ ~StartsWith(l, Bullet)
          /\ ~StartsWith(l, MarkerA)
          /\ ~StartsWith(l, MarkerB)
          /\ ~IsDigit(l[1])

\* C3: a continuation line adds no Question, and the text of the last
\* Question becomes its old text, one space, the stripped line.
C3_ContinuationMerge ==
    [][ContinuationLine =>
          /\ Len(current_questions') = Len(current_questions)
          /\ current_questions'[Len(current_questions)].text =
                 current_questions[Len(current_questions)].text
                     \o <<" ">> \o Strip(lines[idx])]_vars

C3_Merged ==
    /\ ppc = "loop"
    /\ idx = 4
    /\ lines[2] = <<"-", " ", "x", " ", "y">>
    /\ lines[3] = <<" ", " ", "y", " ", "[", "H", "a", "r", "d", "]", " ">>
    /\ Len(current_questions) = 1
    /\ current_questions[1].text = <<"-", " ", "x", " ", "y", " ", "y", " ", "[", "H", "a", "r", "d", "]">>

\* no line of the text is a section header
HeaderFree(t) ==
    LET ls == SplitLines(t)
    IN \A i \in DOMAIN ls : SectionMatch(Strip(ls[i])) = None

\* C4: _format_response raises nothing on any text, its loop stays within the
\* lines (each step takes the next line or returns), and on a text without
\* a section header it returns no section.
C4_ParserTotal ==
    /\ ~raised
    /\ ppc \in {"call", "loop", "done"}
    /\ (ppc = "loop" => idx \in 1..(Len(lines) + 1))
    /\ (ppc = "done" /\ HeaderFree(text) => DOMAIN sections = {})

\* returned from an open section with an empty line and a bare enumeration prefix
C4_Returned ==
    /\ ppc = "done"
    /\ ~raised
    /\ Len(lines) = 3
    /\ lines[1] = <<"*", "*", "S", "*", "*">>
    /\ lines[2] = <<>>
    /\ lines[3] = <<"2", ".">>

\* C5: under a multiple_choice section, the item line
\* "<stem> a) O1 b) O2 ..." (the O's holding no lettered marker themselves)
\* yields one Question whose options are exactly O1, O2, ... trimmed, in the
\* order of their markers.
C5_ChoiceOptions ==
    (ppc = "done" /\ template = TemplateChoice)
        => \A st \in Stems, os \in SeqsFrom1(OptionTexts, MaxOptions) :
               text = ChoiceText(st, os)
                   => /\ DOMAIN sections = {NameS}
                      /\ Len(sections[NameS]) = 1
                      /\ sections[NameS][1].options = os

C5_FourOptions ==
    /\ ppc = "done"
    /\ template = TemplateChoice
    /\ text = ChoiceText(<<"-", " ", "W", "h", "?">>,
                         <<<<"P", "a", "r", "i", "s">>, <<"l", "y", "o", "n", " ", "x">>, <<"4">>, <<"P", "a", "r", "i", "s">>>>)
    /\ Len(sections[NameS][1].options) = 4

(***************************************************************************)
(* Properties of the extractor and of the request's extraction.            *)
(***************************************************************************)
\* no two consecutive whitespace characters, none leading, none trailing
Normalised(s) ==
    /\ s # <<>> => ~IsSpace(s[1]) /\ ~IsSpace(s[Len(s)])
    /\ \A i \in 1..(Len(s) - 1) : ~(IsSpace(s[i]) /\ IsSpace(s[i + 1]))

\* C6: the string extract_text_from_pdf returns has no two consecutive
\* whitespace characters and no leading or trailing whitespace, for every
\* document, pages without text included.
C6_ExtractNormalForm == sm_i > 1 => Normalised(doc_text)

\* fitz raises on the document
Fails(doc) == doc.fail_at <= Len(doc.pages)

\* the document extracts, and some page of it has text
Succeeds(doc) ==
    /\ ~Fails(doc)
    /\ \E i \in DOMAIN doc.pages : \E k \in DOMAIN doc.pages[i] : ~IsSpace(doc.pages[i][k])

\* C7: a document whose extraction fails yields the empty string and raises
\* nothing; and a batch with a document that yields text goes on to the
\* generation step with the texts of the documents that succeeded, in order.
C7_SoftFailure ==
    /\ fpc # "error"
    /\ (sm_i > 1 /\ Fails(study_materials[sm_i - 1])) => doc_text = <<>>
    /\ fpc = "rejected" => \A i \in DOMAIN study_materials : ~Succeeds(study_materials[i])
    /\ fpc \in {"harvest", "generate"}
           => LET good == SelectSeq(study_materials, Succeeds)
              IN combined_text = [k \in 1..Len(good) |-> extract_text_from_pdf(good[k])]

C7_BatchWentOn ==
    /\ fpc = "generate"
    /\ Len(study_materials) = 3
    /\ Fails(study_materials[1])
    /\ Succeeds(study_materials[2])
    /\ Fails(study_materials[3])
    /\ combined_text = <<<<"x">>>>

(***************************************************************************)
(* Properties of the harvester.                                            *)
(***************************************************************************)
\* the text of k markers Q<number>. each followed by a body
RECURSIVE MarkedText(_)
MarkedText(pairs) ==
    IF pairs = <<>> THEN <<>>
    ELSE pairs[1][1] \o pairs[1][2] \o MarkedText(Tail(pairs))

HasMarker(e) == \E m \in QMarkers : Contains(e, m)

\* C8: a past-paper text of k markers Q<number>. each followed by a non-blank
\* body yields exactly k entries, in text order, the i-th the cleaned body of
\* the i-th marker, without the marker, non-empty and no longer than the bound.
C8_HarvestSplit ==
    fpc = "generate"
        => \A pairs \in SeqsFrom1(QMarkers \X Bodies, MaxPieces \div 2) :
               past_papers = <<TextDoc(MarkedText(pairs))>>
                   => /\ Len(past_questions) = Len(pairs)
                      /\ \A i \in DOMAIN pairs :
                             /\ past_questions[i] = _clean_question(PageText(pairs[i][2]))
                             /\ past_questions[i] # <<>>
                             /\ Len(past_questions[i]) <= TruncLen
                             /\ ~HasMarker(past_questions[i])

\* C9: no entry of the list extract_questions_from_past_papers returns is
\* empty or whitespace only.
C9_NoEmptyEntry ==
    fpc = "generate"
        => \A i \in DOMAIN past_questions : Strip(past_questions[i]) # <<>>

\* C10: every entry of the list is no longer than the bound, holds no
\* bracketed fragment [...] and no run of two or more whitespace characters.
C10_CleanEntries ==
    fpc = "generate"
        => \A i \in DOMAIN past_questions :
               LET e == past_questions[i]
               IN /\ Len(e) <= TruncLen
                  /\ ~\E a, b \in DOMAIN e : a < b /\ e[a] = "[" /\ e[b] = "]"
                  /\ \A k \in 1..(Len(e) - 1) : ~(IsSpace(e[k]) /\ IsSpace(e[k + 1]))

C10_CutEntry ==
    /\ fpc = "generate"
    /\ past_papers = <<TextDoc(<<"Q", "1", ".">> \o <<" ", "a", " ", "]", " ", "\n", " ", "[", "b", "\n", "c", "]", " ", "d", " ", "[">>
                                \o <<" ", "w", "h", "a", "t", " ", "i", "s", " ", "x">>)>>
    /\ Len(past_questions) = 1
    /\ Len(past_questions[1]) = TruncLen
    /\ SubSeq(past_questions[1], 1, 5) = <<"a", " ", "]", " ", "d">>

(***************************************************************************)
(* Properties of generate_questions and of the storing of its result.      *)
(***************************************************************************)
SameArguments(a, b) ==
    /\ a.template = b.template
    /\ a.quota = b.quota
    /\ a.text = b.text
    /\ a.past = b.past

SourceText == Join(combined_text, <<"\n", "\n">>)

\* the positions of s at which p occurs
Occurrences(s, p) == {i \in 1..Len(s) : MatchAt(s, p, i)}

\* the past questions a system instruction lists: the lines between the head
\* and the tail of its avoidance section, without their bullets
ListedSamples(sys) ==
    LET heads == Occurrences(sys, AvoidanceHead)
        from == Min(heads) + Len(AvoidanceHead)
        tails == {i \in Occurrences(sys, AvoidanceTail) : i >= from}
        ls == SplitLines(SubSeq(sys, from, Min(tails) - 1))
    IN IF heads = {} THEN <<>> ELSE [i \in 1..Len(ls) |-> From(ls[i], Len(Bullet) + 1)]

\* C12: what is handed to the generation service is one system and one user
\* message; the user instruction ends with exactly the first
\* min(len, budget) characters of the source text, and the system instruction
\* lists exactly the first min(n, sample size) past questions, in their order.
C12_ComposerBounds ==
    \A k \in DOMAIN sent :
        LET sys == sent[k][1].content
            usr == sent[k][2].content
            n == IF Len(SourceText) < TextBudget THEN Len(SourceText) ELSE TextBudget
            given == IF past_questions = NoneList THEN <<>> ELSE past_questions
            m == IF Len(given) < MaxSample THEN Len(given) ELSE MaxSample
        IN /\ Len(sent[k]) = 2
           /\ sent[k][1].role = "system" /\ sent[k][2].role = "user"
           /\ Len(usr) = Len(UserHead) + n
           /\ SubSeq(usr, 1, Len(UserHead)) = UserHead
           /\ \A i \in 1..n : usr[Len(UserHead) + i] = SourceText[i]
           /\ Len(ListedSamples(sys)) = m
           /\ \A i \in 1..m : ListedSamples(sys)[i] = given[i]

\* sent from a source text over the budget and more past questions than the
\* sample takes
C12_BothCut ==
    /\ Len(sent) = 1
    /\ Len(SourceText) = TextBudget + 2
    /\ past_questions = PastOfLen(MaxSample + 1)
    /\ Len(sent[1][2].content) = Len(UserHead) + TextBudget

\* the system instruction holds text of the avoidance section
HasAvoidance(sys) ==
    \/ Occurrences(sys, AvoidanceHead) # {}
    \/ Occurrences(sys, AvoidanceTail) # {}

\* C13: the system instruction handed to the service holds the avoidance
\* instruction and the list of samples when the past-question list is present
\* and not empty, and no text of the avoidance section when it is None or
\* empty.
C13_AvoidanceSection ==
    \A k \in DOMAIN sent :
        LET sys == sent[k][1].content
        IN IF past_questions # NoneList /\ past_questions # <<>>
           THEN /\ Occurrences(sys, AvoidanceHead) # {}
                /\ Occurrences(sys, AvoidanceTail) # {}
                /\ ListedSamples(sys) # <<>>
           ELSE ~HasAvoidance(sys)

\* sent with an empty list of past questions
C13_EmptyListSent ==
    /\ Len(sent) = 1
    /\ past_questions = <<>>
    /\ ~HasAvoidance(sent[1][1].content)

\* every study document of the request extracts to the empty text
AllEmpty ==
    /\ study_materials # <<>>
    /\ \A i \in DOMAIN study_materials : extract_text_from_pdf(study_materials[i]) = <<>>

\* C14: on an empty source text generate_questions returns the error result,
\* hands nothing to the generation service and returns no document; a request
\* whose study documents all extract to the empty text is turned back before
\* generate_questions, and nothing is sent or stored for it.
C14_EmptySource ==
    /\ (SourceText = <<>>)
           => /\ sent = <<>>
              /\ stored = <<>>
              /\ fpc \in {"extract", "generate", "result", "rejected"}
              /\ "sections" \notin DOMAIN result
              /\ fpc = "result" => result = [error |-> NoContentMessage]
    /\ AllEmpty
           => /\ sent = <<>>
              /\ stored = <<>>
              /\ result = NoResult
              /\ fpc \in {"extract", "rejected"}

\* generate_questions has returned from an empty source text
C14_ErrorReturned ==
    /\ fpc = "result"
    /\ study_materials = <<>>
    /\ combined_text = <<>>
    /\ past_questions = PastOfLen(1)
    /\ result = [error |-> NoContentMessage]

\* generate_questions has returned from a call of the service
Returned == sent # <<>> /\ fpc \in {"result", "rejected", "stored"}

\* C15: when the generation service raises, or returns an empty response,
\* generate_questions returns an error result (with the message of the
\* exception when there is one), never a document, and nothing is stored.
C15_GenerationFailure ==
    /\ (Returned /\ ppc = "idle")
           => /\ "error" \in DOMAIN result
              /\ Occurrences(result.error, ServiceDown) # {}
              /\ stored = <<>>
    /\ (Returned /\ ppc # "idle" /\ text = <<>>)
           => /\ "error" \in DOMAIN result
              /\ stored = <<>>

(***************************************************************************)
(* Properties of the documents _format_response returns.                   *)
(***************************************************************************)
TemplateNames(tpl) == {tpl.sections[i].name : i \in DOMAIN tpl.sections}

\* C16: every key of the sections mapping _format_response returns is the
\* name of a section of the Template it was called with.
C16_SectionNames ==
    ppc = "done" => DOMAIN sections \subseteq TemplateNames(template)

\* C17: every Question of a document _format_response returns has a text
\* that is not empty.
C17_TextNonEmpty ==
    ppc = "done" => \A name \in DOMAIN sections :
                        \A i \in DOMAIN sections[name] : sections[name][i].text # <<>>

Untagged(line) ==
    ~Contains(line, TagEasy) /\ ~Contains(line, TagMedium) /\ ~Contains(line, TagHard)

\* C18 as stated: the difficulty of the Question of an item line is one of easy,
\* medium, hard, and is medium exactly when the line carries none of the tags
\* [Easy], [Medium], [Hard]; its marks are a non-negative integer.
C18_MediumIffUntagged ==
    ItemParsed
        => /\ LastQuestion.difficulty \in {"easy", "medium", "hard"}
           /\ LastQuestion.difficulty = "medium" <=> Untagged(LastLine)
           /\ LastQuestion.marks \in Nat

\* C18, amended: the difficulty of the Question of an item line is one of
\* easy, medium, hard; it is medium when the line carries none of the tags,
\* and it is easy, medium or hard on a tagged line only when the line carries
\* that tag; its marks are a non-negative integer, never None.
C18_FieldDomains ==
    ItemParsed
        => /\ LastQuestion.difficulty \in {"easy", "medium", "hard"}
           /\ Untagged(LastLine) => LastQuestion.difficulty = "medium"
           /\ ~Untagged(LastLine)
                  => \/ LastQuestion.difficulty = "easy" /\ Contains(LastLine, TagEasy)
                     \/ LastQuestion.difficulty = "medium" /\ Contains(LastLine, TagMedium)
                     \/ LastQuestion.difficulty = "hard" /\ Contains(LastLine, TagHard)
           /\ LastQuestion.marks \in Nat
           /\ LastQuestion.marks # NoMarks

\* an item line tagged [Medium] has been parsed
C18_MediumTagged ==
    /\ ItemParsed
    /\ LastLine = <<"-", " ", "[", "M", "e", "d", "i", "u", "m", "]", " ", "x">>
    /\ LastQuestion.difficulty = "medium"
    /\ LastQuestion.marks = 0

\* the Template declares a section of this name, of type multiple_choice
DeclaredChoice(name, tpl) ==
    \E i \in DOMAIN tpl.sections :
        tpl.sections[i].name = name /\ tpl.sections[i].type = "multiple_choice"

\* C19: a Question has an options list exactly when the section it was parsed
\* under is declared multiple_choice in the Template; an item line of such a
\* section without a lettered marker still gives a Question, with an empty
\* options list, and the Question is in the returned document.
C19_OptionsPresence ==
    /\ \A name \in DOMAIN sections : \A i \in DOMAIN sections[name] :
           "options" \in DOMAIN sections[name][i] <=> DeclaredChoice(name, template)
    /\ ItemParsed
           => /\ current_questions # <<>>
              /\ "options" \in DOMAIN LastQuestion
                     <=> DeclaredChoice(current_section, template)
              /\ (DeclaredChoice(current_section, template) /\ ~Contains(LastLine, MarkerA))
                     => LastQuestion.options = <<>>
    /\ (ppc = "done" /\ Truthy(current_section))
           => sections[current_section] = current_questions

\* returned: a multiple-choice item without options, committed
C19_EmptyOptions ==
    /\ ppc = "done"
    /\ template = TemplateChoice
    /\ text = <<"*", "*", "S", "*", "*", "\n", "-", " ", "x", " ", "y">>
    /\ sections[NameS] = <<[text |-> <<"-", " ", "x", " ", "y">>, difficulty |-> "medium",
                            marks |-> 0, options |-> <<>>]>>

(***************************************************************************)
(* Properties of concurrent calls.                                         *)
(***************************************************************************)
\* the locals of a call of _format_response that runs alone, after the first
\* k lines of ls
RECURSIVE AfterLines(_, _, _)
AfterLines(ls, k, tpl) ==
    IF k = 0 THEN [sections |-> EmptyDict, current_section |-> None,
                   current_questions |-> <<>>, raised |-> FALSE]
    ELSE FormatStep(AfterLines(ls, k - 1, tpl), ls[k], tpl)

\* the sections of the document of a call that runs alone
DocumentAlone(t, tpl) ==
    LET ls == SplitLines(t)
        st == AfterLines(ls, Len(ls), tpl)
    IN IF Truthy(st.current_section)
       THEN DictSet(st.sections, st.current_section, st.current_questions)
       ELSE st.sections

MessagesOf(c) == <<[role |-> "system", content |-> c.system],
                   [role |-> "user", content |-> c.user]>>

\* C21: in an invocation of generate_questions the generation service is
\* called at most once, with the instructions the invocation has composed
\* before the call; the parser runs only on a response text the call has
\* returned; after a call that raised no further call is made.
C21_SequentialChain ==
    /\ Len(sent) <= 1
    /\ sent # <<>> => /\ Len(composed) = 1
                      /\ sent[1] = MessagesOf(composed[1])
    /\ fpc = "chat" => /\ sent = <<>>
                       /\ Len(composed) = 1
                       /\ system_prompt = composed[1].system
                       /\ user_prompt = composed[1].user
    /\ ppc # "idle" => /\ Len(sent) = 1
                       /\ \E r \in Replies : ~r.raises /\ text = r.content
    /\ (Returned /\ ppc = "idle") => /\ Len(sent) = 1
                                     /\ "error" \in DOMAIN result

\* the service raised on the one call, and the request was turned back
C21_FailedOnce ==
    /\ fpc = "rejected"
    /\ Len(sent) = 1
    /\ ppc = "idle"
    /\ result = [error |-> GenerationErrorHead \o ServiceDown]

(***************************************************************************)
(* Properties of the section headers and of the commits of sections.       *)
(***************************************************************************)
\* the whole line has the form **<text>**
WholeLineHeader(l) ==
    /\ Len(l) >= 4
    /\ StartsWith(l, Stars)
    /\ SubSeq(l, Len(l) - 1, Len(l)) = Stars

\* C22: a line whose stripped form is not **<text>** as a whole (one that
\* begins with a bold fragment and goes on with other text) closes no section
\* and opens none: the open section and the committed sections stay.
C22_HeaderWholeLine ==
    [][(ppc = "loop" /\ idx <= Len(lines) /\ ~WholeLineHeader(Strip(lines[idx])))
          => /\ current_section' = current_section
             /\ sections' = sections]_vars

\* the stripped i-th line of the response
LineAt(i) == Strip(lines[i])

\* the position of the last header line before line i, 0 when there is none
GoverningHeader(i) ==
    LET hs == {j \in 1..(i - 1) : SectionMatch(LineAt(j)) # None}
    IN IF hs = {} THEN 0 ELSE CHOOSE j \in hs : \A k \in hs : k <= j

\* the item lines processed while the section named n was open
ItemLinesOf(n) ==
    {i \in 1..Len(lines) :
         /\ SectionMatch(LineAt(i)) = None
         /\ IsItemStart(LineAt(i))
         /\ GoverningHeader(i) # 0
         /\ SectionMatch(LineAt(GoverningHeader(i))) = n}

\* C23: in the returned document every section that was open holds one
\* Question for each item line processed while a header of its name was the
\* last header, also when several header lines carry the same name.
C23_NoQuestionLost ==
    ppc = "done"
        => \A j \in 1..Len(lines) :
               LET n == SectionMatch(LineAt(j))
               IN (n # None /\ Truthy(n))
                      => /\ n \in DOMAIN sections
                         /\ Len(sections[n]) = Cardinality(ItemLinesOf(n))

\* the difficulty tags that occur in a line
TagsIn(line) == {t \in {TagEasy, TagMedium, TagHard} : Contains(line, t)}

\* the tag that occurs first in the line
LeftmostTag(line) ==
    CHOOSE t \in TagsIn(line) : \A u \in TagsIn(line) : Find(line, t, 1) <= Find(line, u, 1)

\* the difficulty a tag names
DifficultyOfTag(t) ==
    IF t = TagEasy THEN "easy" ELSE IF t = TagMedium THEN "medium" ELSE "hard"

\* C24: a question item line with more than one of the tags [Easy], [Medium],
\* [Hard] gets the difficulty of the tag that occurs first in the line.
C24_LeftmostTag ==
    (ItemParsed /\ Cardinality(TagsIn(LastLine)) > 1)
        => LastQuestion.difficulty = DifficultyOfTag(LeftmostTag(LastLine))

TemplateRowsOf(k) == {i \in DOMAIN db.templates : db.templates[i].request = k}
PaperRowsOf(k) == {j \in DOMAIN db.papers : db.papers[j].request = k}

\* C25: the tables never hold a template row of a request without the paper
\* row of that request pointing at it; a request whose saving failed (at the
\* template insert, the paper insert or the commit) has no row in either
\* table and no open transaction left; a request whose saving succeeded has
\* its paper row, and its template row when the form named no template.
C25_AtomicSave ==
    /\ \A k \in 1..request.n :
           \A i \in TemplateRowsOf(k) :
               \E j \in PaperRowsOf(k) : db.papers[j].template_id = i
    /\ fpc \in {"rollback", "rejected"}
           => /\ TemplateRowsOf(request.n) = {}
              /\ PaperRowsOf(request.n) = {}
    /\ fpc = "rejected" => request.pending = NoRows
    /\ fpc \in {"cleanup", "stored"}
           => /\ Cardinality(PaperRowsOf(request.n)) = 1
              /\ Cardinality(TemplateRowsOf(request.n)) = IF request.form_id = 0 THEN 1 ELSE 0
              /\ request.pending = NoRows

\* a request was turned back after its template row had been inserted in the
\* transaction: the tables hold no row
C25_RolledBack ==
    /\ fpc = "rejected"
    /\ "sections" \in DOMAIN result
    /\ request.form_id = 0
    /\ request.template_id = 1
    /\ db = EmptyDb

\* index() is inside a step 'generate' that has passed the template checks
Active == fpc \in {"extract", "harvest", "generate", "chat", "parse", "result", "save",
                   "paper", "commit", "cleanup", "rollback"}

\* the session holds a template with sections
HasTemplate == session # NoTemplate /\ "sections" \in DOMAIN session

\* C30: a step 'generate' reaches the extraction, and the generation service
\* is called, only with a template with sections in the session, which is the
\* template of the request; a step that succeeds removes the template from
\* the session; a step 'generate' without a template in the session is turned
\* back with no generation call; a step that fails keeps the template in the
\* session.
C30_TemplateLifecycle ==
    [][/\ (~Active /\ Active') => (HasTemplate /\ template' = session)
       /\ sent' # sent => HasTemplate
       /\ (fpc # "stored" /\ fpc' = "stored") => session' = NoTemplate
       /\ (Between /\ request' # request /\ ~HasTemplate)
              => (fpc' = "rejected" /\ sent' = sent)
       /\ (Active /\ fpc' = "rejected") => (session' = session /\ HasTemplate)]_vars

\* after a step that succeeded a second step 'generate' was turned back for
\* want of a template, with no second generation call
C30_SecondRejected ==
    /\ request.n = 2
    /\ fpc = "rejected"
    /\ session = NoTemplate
    /\ Len(stored) = 1
    /\ Len(sent) = 1

(***************************************************************************)
(* Properties of edit_paper.                                               *)
(***************************************************************************)
\* the section names of a content and the number of Questions of each
Structure(content) == [s \in DOMAIN content.sections |-> Len(content.sections[s])]

\* C27: no step of edit_paper changes the section names of a stored paper or
\* the number of Questions of a section; a request of a user who is no
\* teacher, or for a paper that does not exist, changes no row; the content
\* a request writes differs from the content it read in the Questions its
\* body reaches only: a section the paper has not and an index past the end
\* of a section change nothing.
C27_StructurePreserved ==
    [][/\ DOMAIN db'.papers = DOMAIN db.papers
       /\ \A p \in DOMAIN db.papers :
              Structure(db'.papers[p].content) = Structure(db.papers[p].content)
       /\ \A r \in Requests :
              /\ (reqs'[r] # reqs[r]
                      /\ (reqs'[r].user # "teacher"
                              \/ reqs'[r].paper_id \notin DOMAIN db.papers))
                     => db' = db
              /\ (reqs[r].pc = "update" /\ reqs'[r].pc = "commit")
                     => /\ Structure(reqs'[r].content) = Structure(reqs[r].content)
                        /\ \A s \in DOMAIN reqs[r].content.sections :
                               \A i \in 1..Len(reqs[r].content.sections[s]) :
                                   (s \notin DOMAIN reqs[r].edits \/ i > Len(reqs[r].edits[s]))
                                       => reqs'[r].content.sections[s][i]
                                              = reqs[r].content.sections[s][i]
                        /\ EditTargets(reqs[r].content, reqs[r].edits) = {}
                               => reqs'[r].content = reqs[r].content]_vars

\* a request whose body patches a third question of a section of fewer
\* questions has reported success, and the paper is as it was generated
C27_PastEndIgnored ==
    \E r \in Requests :
        /\ reqs[r].pc = "done"
        /\ reqs[r].reply = ReplySuccess
        /\ reqs[r].edits = (NameS :> <<Patch({}), Patch({}), Patch({"marks"})>>)
        /\ db.papers[1].is_edited
        /\ db.papers[1].content \in PaperDocs

\* C28: when both requests have edited paper 1 and both report success, the
\* stored content holds every patch of both: each key a body gives to a
\* Question it reaches has the value of the patch.
C28_NoLostUpdate ==
    (\A r \in Requests : /\ reqs[r].pc = "done"
                         /\ reqs[r].n = 1
                         /\ reqs[r].paper_id = 1
                         /\ reqs[r].reply = ReplySuccess)
        => \A r \in Requests :
               \A t \in EditTargets(db.papers[1].content, reqs[r].edits) :
                   \A k \in reqs[r].edits[t[1]][t[2]].keys :
                       db.papers[1].content.sections[t[1]][t[2]][k] = PatchValues[k]

(***************************************************************************)
(* Properties of the uploads of concurrent requests.                       *)
(***************************************************************************)
\* C29: every text a request has extracted is the text of a document it
\* uploaded, none of its study materials is missing from what it extracted,
\* and every file it has saved and not yet read (a study material before its
\* turn in the loop, a past paper before the harvest) is in the folder with
\* the content the request uploaded.
C29_PrivateUploads ==
    \A r \in Requests :
        /\ \A k \in DOMAIN reqs[r].combined_text :
               reqs[r].combined_text[k] = extract_text_from_pdf(StudyDoc(r))
        /\ reqs[r].pc \in {"generate", "cleanup", "done"}
               => Len(reqs[r].combined_text) = Len(reqs[r].study_materials)
        /\ reqs[r].pc = "extract"
               => /\ \A k \in reqs[r].i..Len(reqs[r].study_materials) :
                         FileAt(files, reqs[r].study_materials[k]) = StudyDoc(r)
                  /\ \A k \in DOMAIN reqs[r].past_papers :
                         FileAt(files, reqs[r].past_papers[k]) = PaperDoc(r)
        /\ (reqs[r].pc \in {"generate", "cleanup", "done"} /\ reqs[r].past_papers # <<>>)
               => reqs[r].past_questions
                      = extract_questions_from_past_papers(
                            [k \in DOMAIN reqs[r].past_papers |-> PaperDoc(r)])

====
